---- MODULE Spec2Model ----
(***************************************************************************)
(* A model of the order-book engine: the DataFabric byte FIFO, the ITCH    *)
(* framing parser, the OrderBook order table and index, and the            *)
(* price-level book (BookSide / OrderBookEngine) with its node heap.       *)
(*                                                                         *)
(* Operations are written as operators over records, the way the C++       *)
(* methods act on their objects, and the actions below bind them to the    *)
(* variables.  OrderNode objects live in a heap addressed by NodeAddr so   *)
(* that the raw pointers of the source (prev, next, head, tail,            *)
(* OrderInfo::node) keep their meaning, including pointers to freed nodes. *)
(***************************************************************************)
EXTENDS Integers, Sequences, FiniteSets, TLC

\* ------------------------------------------------------------------ bounds
MaxOrderId == 2      \* order ids are 1..MaxOrderId
MaxPrice == 2        \* prices are 1..MaxPrice
MaxQty == 2          \* quantities are 0..MaxQty
MaxInvalid == 1      \* rejected operations explored per behaviour
MaxTakes == 1        \* aggressive takes explored per behaviour
FifoDepth == 40      \* capacity of the fabric, in bytes
MaxWrites == 3       \* write_chunk calls explored per behaviour
MaxProcess == 2      \* process() calls explored per behaviour
StreamDepth == 64    \* capacity of the fabric a message stream is sent through
MaxCalls == 5        \* operations on resting orders explored around repeated takes
MaxExtra == 3        \* bytes that follow a complete message in a parser input

OrderIds == 1..MaxOrderId
Prices == 1..MaxPrice
Qtys == 0..MaxQty
SideChars == {"B", "S"}
Timestamps == {1}
\* The timestamp field of a Replace message: that of the Adds, and a later one.
ReplaceStamps == {1, 2}

\* ------------------------------------------------------------ small helpers
nullptr == 0

EmptyMap == [x \in {} |-> 0]

MapPut(f, k, v) == [x \in (DOMAIN f) \cup {k} |-> IF x = k THEN v ELSE f[x]]

MapErase(f, k) == [x \in (DOMAIN f) \ {k} |-> f[x]]

SetMax(S) == CHOOSE x \in S : \A y \in S : y <= x

SetMin(S) == CHOOSE x \in S : \A y \in S : x <= y

\* A call whose argument is evaluated once, before the call, as C++ does.
ByValue(F(_), x) == CHOOSE out \in {F(v) : v \in {x}} : TRUE

\* uint64_t values are kept as integers congruent modulo 2^64: a negative
\* integer n stands for 2^64 + n, the value an unsigned subtraction wraps to.
\* Addition and subtraction are then the integer ones; only the order differs.
U64Less(a, b) == IF (a < 0) = (b < 0) THEN a < b ELSE b < 0

\* ------------------------------------------------------------- node heap
\* Addresses `new OrderNode` can return.  One more than the orders that can
\* be live, so that an allocation can always avoid a just-freed address.
NodeAddr == 1..(MaxOrderId + 1)

OrderNode(order_id, quantity, prev, next) ==
    [order_id |-> order_id, quantity |-> quantity, prev |-> prev, next |-> next]

PriceLevel(p) == [price |-> p, total_qty |-> 0, head |-> nullptr, tail |-> nullptr]

\* The book: both level maps and the heap their nodes live in.
\*   bids_, asks_ : price -> PriceLevel     (std::map, ordered by key)
\*   mem          : NodeAddr -> OrderNode   (contents of every address)
\*   live         : addresses currently allocated
\*   ub           : a freed address was dereferenced or deleted
EmptyBook ==
    [bids_ |-> EmptyMap, asks_ |-> EmptyMap,
     mem |-> [a \in NodeAddr |-> OrderNode(0, 0, nullptr, nullptr)],
     live |-> {}, ub |-> FALSE]

LevelsOf(book, side) == IF side = "Bid" THEN book.bids_ ELSE book.asks_

WithLevels(book, side, levels) ==
    IF side = "Bid" THEN [book EXCEPT !.bids_ = levels]
    ELSE [book EXCEPT !.asks_ = levels]

\* Dereferencing `a`: undefined when the address is not allocated.
Deref(book, a) == [book EXCEPT !.ub = book.ub \/ (a \notin book.live)]

getOrCreateLevel(levels, price) ==
    IF price \in DOMAIN levels THEN levels
    ELSE MapPut(levels, price, PriceLevel(price))

\* An addOrder that enqueues at the head of the FIFO.
addOrder_AtHead(book, side, order_id, price, qty, node) ==
    LET levels0 == getOrCreateLevel(LevelsOf(book, side), price)
        level == levels0[price]
        m0 == [book.mem EXCEPT ![node] = OrderNode(order_id, qty, nullptr, nullptr)]
        b0 == [book EXCEPT !.mem = m0, !.live = book.live \cup {node}]
        linked ==
            IF level.head = nullptr
            THEN [book |-> b0, tail |-> node]
            ELSE LET m1 == [m0 EXCEPT ![level.head].prev = node]
                     m2 == [m1 EXCEPT ![node].next = level.head]
                 IN [book |-> [Deref(b0, level.head) EXCEPT !.mem = m2],
                     tail |-> level.tail]
        level1 == [level EXCEPT !.head = node, !.tail = linked.tail,
                                !.total_qty = level.total_qty + qty]
    IN WithLevels(linked.book, side, MapPut(levels0, price, level1))

\* BookSide::addOrder on side `side`; `node` is the address new returns.
addOrder(book, side, order_id, price, qty, node) ==
    LET levels0 == getOrCreateLevel(LevelsOf(book, side), price)
        level == levels0[price]
        m0 == [book.mem EXCEPT ![node] = OrderNode(order_id, qty, nullptr, nullptr)]
        b0 == [book EXCEPT !.mem = m0, !.live = book.live \cup {node}]
        linked ==
            IF level.tail = nullptr
            THEN [book |-> b0, head |-> node]
            ELSE LET m1 == [m0 EXCEPT ![level.tail].next = node]
                     m2 == [m1 EXCEPT ![node].prev = level.tail]
                 IN [book |-> [Deref(b0, level.tail) EXCEPT !.mem = m2],
                     head |-> level.head]
        level1 == [level EXCEPT !.head = linked.head, !.tail = node,
                                !.total_qty = level.total_qty + qty]
    IN WithLevels(linked.book, side, MapPut(levels0, price, level1))

\* An unlink that leaves the level in the map when its last node goes.
UnlinkNode_KeepLevel(b, side, levels, level, node, price) ==
    LET n == b.mem[node]
        m1 == IF n.prev # nullptr THEN [b.mem EXCEPT ![n.prev].next = n.next]
              ELSE b.mem
        head1 == IF n.prev # nullptr THEN level.head ELSE n.next
        m2 == IF n.next # nullptr THEN [m1 EXCEPT ![n.next].prev = n.prev] ELSE m1
        tail1 == IF n.next # nullptr THEN level.tail ELSE n.prev
        b3 == [b EXCEPT !.mem = m2, !.live = b.live \ {node},
                        !.ub = b.ub \/ (node \notin b.live)]
        level1 == [level EXCEPT !.head = head1, !.tail = tail1]
    IN WithLevels(b3, side, MapPut(levels, price, level1))

\* The unlink-delete-erase tail shared by cancelOrder and updateQuantity:
\* `level` already carries the new total_qty, `b` the node's new quantity.
UnlinkNode(b, side, levels, level, node, price) ==
    LET n == b.mem[node]
        m1 == IF n.prev # nullptr THEN [b.mem EXCEPT ![n.prev].next = n.next]
              ELSE b.mem
        head1 == IF n.prev # nullptr THEN level.head ELSE n.next
        b1 == IF n.prev # nullptr THEN Deref(b, n.prev) ELSE b
        nx == m1[node].next
        pv == m1[node].prev
        m2 == IF nx # nullptr THEN [m1 EXCEPT ![nx].prev = pv] ELSE m1
        tail1 == IF nx # nullptr THEN level.tail ELSE pv
        b2 == IF nx # nullptr THEN Deref(b1, nx) ELSE b1
        \* delete node
        b3 == [b2 EXCEPT !.mem = m2, !.live = b2.live \ {node},
                         !.ub = b2.ub \/ (node \notin b2.live)]
        level1 == [level EXCEPT !.head = head1, !.tail = tail1]
        levels1 == IF head1 = nullptr THEN MapErase(levels, price)
                   ELSE MapPut(levels, price, level1)
    IN WithLevels(b3, side, levels1)

\* A cancelOrder that unlinks the node and leaves the level's aggregate.
cancelOrder_KeepsAggregate(book, side, node, price) ==
    LET levels == LevelsOf(book, side) IN
    IF node = nullptr THEN book
    ELSE IF price \notin DOMAIN levels THEN book
    ELSE UnlinkNode(Deref(book, node), side, levels, levels[price], node, price)

\* BookSide::cancelOrder
cancelOrder(book, side, node, price) ==
    LET levels == LevelsOf(book, side) IN
    IF node = nullptr THEN book
    ELSE IF price \notin DOMAIN levels THEN book
    ELSE LET level == levels[price]
             b0 == Deref(book, node)
             level0 == [level EXCEPT !.total_qty = level.total_qty - b0.mem[node].quantity]
         IN UnlinkNode(b0, side, levels, level0, node, price)

\* An updateQuantity that writes the node and leaves the level's aggregate.
updateQuantity_KeepsAggregate(book, side, node, price, new_qty) ==
    LET levels == LevelsOf(book, side) IN
    IF node = nullptr THEN book
    ELSE IF price \notin DOMAIN levels THEN book
    ELSE LET level == levels[price]
             b0 == Deref(book, node)
             b1 == [b0 EXCEPT !.mem[node].quantity = new_qty]
         IN IF new_qty = 0
            THEN UnlinkNode(b1, side, levels, level, node, price)
            ELSE WithLevels(b1, side, MapPut(levels, price, level))

\* BookSide::updateQuantity
updateQuantity(book, side, node, price, new_qty) ==
    LET levels == LevelsOf(book, side) IN
    IF node = nullptr THEN book
    ELSE IF price \notin DOMAIN levels THEN book
    ELSE LET level == levels[price]
             b0 == Deref(book, node)
             level0 == [level EXCEPT
                          !.total_qty = level.total_qty - b0.mem[node].quantity + new_qty]
             b1 == [b0 EXCEPT !.mem[node].quantity = new_qty]
         IN IF new_qty = 0
            THEN UnlinkNode(b1, side, levels, level0, node, price)
            ELSE WithLevels(b1, side, MapPut(levels, price, level0))

\* The best level of a side: std::prev(levels_.end()) for bids, begin() for asks.
BestKey(levels, side) ==
    IF side = "Bid" THEN SetMax(DOMAIN levels) ELSE SetMin(DOMAIN levels)

\* Iterations a loop over nodes or levels can need while the heap is a set of
\* proper lists; a loop that needs more is walking freed or cyclic memory.
LoopFuel == MaxOrderId + 2

\* The inner while loop of BookSide::matchAtBest (lines 103-134) from `node` on.
\* s = [book, level, node, incoming_qty, filled, trades, fuel]
RECURSIVE MatchNodes(_)
MatchNodes(s) ==
    IF s.node = nullptr \/ s.incoming_qty = 0 THEN s
    ELSE IF s.fuel = 0 THEN [s EXCEPT !.book.ub = TRUE]
    ELSE
    LET b0 == Deref(s.book, s.node)
        n == b0.mem[s.node]
        trade_qty == IF U64Less(n.quantity, s.incoming_qty) THEN n.quantity
                     ELSE s.incoming_qty
        trades1 == Append(s.trades, <<n.order_id, trade_qty, s.level.price>>)
        m0 == [b0.mem EXCEPT ![s.node].quantity = n.quantity - trade_qty]
        level0 == [s.level EXCEPT !.total_qty = s.level.total_qty - trade_qty]
        s0 == [s EXCEPT !.trades = trades1,
                        !.incoming_qty = s.incoming_qty - trade_qty,
                        !.filled = s.filled + trade_qty,
                        !.fuel = s.fuel - 1]
    IN IF m0[s.node].quantity = 0
       THEN LET to_delete == s.node
                d == m0[to_delete]
                m1 == IF d.prev # nullptr THEN [m0 EXCEPT ![d.prev].next = d.next]
                      ELSE m0
                head1 == IF d.prev # nullptr THEN level0.head ELSE d.next
                b1 == IF d.prev # nullptr THEN Deref(b0, d.prev) ELSE b0
                nx == m1[to_delete].next
                pv == m1[to_delete].prev
                m2 == IF nx # nullptr THEN [m1 EXCEPT ![nx].prev = pv] ELSE m1
                tail1 == IF nx # nullptr THEN level0.tail ELSE pv
                b2 == IF nx # nullptr THEN Deref(b1, nx) ELSE b1
                b3 == [b2 EXCEPT !.mem = m2, !.live = b2.live \ {to_delete},
                                 !.ub = b2.ub \/ (to_delete \notin b2.live)]
            IN ByValue(MatchNodes,
                       [s0 EXCEPT !.book = b3, !.node = d.next,
                                  !.level = [level0 EXCEPT !.head = head1,
                                                           !.tail = tail1]])
       ELSE [s0 EXCEPT !.book = [b0 EXCEPT !.mem = m0], !.level = level0]

\* The outer while loop of BookSide::matchAtBest (lines 96-141).
\* s = [book, incoming_qty, filled, trades, fuel]
RECURSIVE MatchLevels(_, _)
MatchLevels(s, side) ==
    LET levels == LevelsOf(s.book, side) IN
    IF s.incoming_qty = 0 \/ DOMAIN levels = {} THEN s
    ELSE IF s.fuel = 0 THEN [s EXCEPT !.book.ub = TRUE]
    ELSE
    LET it == BestKey(levels, side)
        level == levels[it]
        AfterLevel(r) ==
            LET levels1 == IF r.level.head = nullptr THEN MapErase(levels, it)
                           ELSE MapPut(levels, it, r.level)
            IN [book |-> WithLevels(r.book, side, levels1),
                incoming_qty |-> r.incoming_qty, filled |-> r.filled,
                trades |-> r.trades, fuel |-> s.fuel - 1]
        Continue(s1) == IF s1.incoming_qty = 0 THEN s1 ELSE MatchLevels(s1, side)
    IN ByValue(Continue,
               ByValue(AfterLevel,
                       ByValue(MatchNodes,
                               [book |-> s.book, level |-> level, node |-> level.head,
                                incoming_qty |-> s.incoming_qty, filled |-> s.filled,
                                trades |-> s.trades, fuel |-> LoopFuel])))

\* BookSide::matchAtBest on side `side`: [book, filled, trades]
matchAtBest(book, side, incoming_qty) ==
    LET r == MatchLevels([book |-> book, incoming_qty |-> incoming_qty, filled |-> 0,
                          trades |-> <<>>, fuel |-> LoopFuel], side)
    IN [book |-> r.book, filled |-> r.filled, trades |-> r.trades]

\* BookSide::bestPrice: <<found, price, qty>>
bestPrice(levels, side) ==
    IF DOMAIN levels = {} THEN <<FALSE, 0, 0>>
    ELSE LET it == BestKey(levels, side)
         IN <<TRUE, levels[it].price, levels[it].total_qty>>

\* BookSide::topK: the first k levels from the best outward whose total_qty > 0.
RECURSIVE TopKFrom(_, _, _, _)
TopKFrom(levels, side, keys, k) ==
    IF keys = {} \/ k = 0 THEN <<>>
    ELSE LET it == IF side = "Bid" THEN SetMax(keys) ELSE SetMin(keys)
         IN IF U64Less(0, levels[it].total_qty)
            THEN <<  <<levels[it].price, levels[it].total_qty>>  >>
                 \o TopKFrom(levels, side, keys \ {it}, k - 1)
            ELSE TopKFrom(levels, side, keys \ {it}, k)

topK(levels, side, k) == TopKFrom(levels, side, DOMAIN levels, k)

\* ------------------------------------------------------- OrderBookEngine
OrderInfo(side, price, quantity, node) ==
    [side |-> side, price |-> price, quantity |-> quantity, node |-> node]

OppositeSide(side) == IF side = "Bid" THEN "Ask" ELSE "Bid"

\* An onAdd that first trades the new order against the opposite side when
\* its price reaches the opposite best.
onAdd_AutoMatch(book, order_id, side, price, qty, node) ==
    LET opposite == LevelsOf(book, OppositeSide(side))
        crosses == /\ DOMAIN opposite # {}
                   /\ IF side = "Bid" THEN BestKey(opposite, "Ask") <= price
                      ELSE price <= BestKey(opposite, "Bid")
        b0 == IF crosses THEN matchAtBest(book, OppositeSide(side), qty).book ELSE book
    IN [book |-> addOrder(b0, side, order_id, price, qty, node),
        info |-> OrderInfo(side, price, qty, node)]

\* OrderBookEngine::onAdd: [book, info]
onAdd(book, order_id, side, price, qty, node) ==
    [book |-> addOrder(book, side, order_id, price, qty, node),
     info |-> OrderInfo(side, price, qty, node)]

\* OrderBookEngine::onCancel: [book, info]
onCancel(book, info) ==
    IF info.node = nullptr THEN [book |-> book, info |-> info]
    ELSE [book |-> cancelOrder(book, info.side, info.node, info.price),
          info |-> [info EXCEPT !.node = nullptr, !.quantity = 0]]

\* onExecute that updates the node and forgets info.quantity.
onExecute_StaleInfo(book, info, executed_qty) ==
    IF info.node = nullptr THEN [book |-> book, info |-> info]
    ELSE IF U64Less(info.quantity, executed_qty) THEN [book |-> book, info |-> info]
    ELSE LET new_qty == info.quantity - executed_qty
         IN [book |-> updateQuantity(book, info.side, info.node, info.price, new_qty),
             info |-> [info EXCEPT !.node = IF new_qty = 0 THEN nullptr ELSE info.node]]

\* OrderBookEngine::onExecute: [book, info]
onExecute(book, info, executed_qty) ==
    IF info.node = nullptr THEN [book |-> book, info |-> info]
    ELSE IF U64Less(info.quantity, executed_qty) THEN [book |-> book, info |-> info]
    ELSE LET new_qty == info.quantity - executed_qty
         IN [book |-> updateQuantity(book, info.side, info.node, info.price, new_qty),
             info |-> [info EXCEPT !.quantity = new_qty,
                                   !.node = IF new_qty = 0 THEN nullptr ELSE info.node]]

\* OrderBookEngine::onAggressive: the taker trades against the opposite side.
onAggressive(book, taking_side, qty) ==
    matchAtBest(book, OppositeSide(taking_side), qty)

\* ------------------------------------------------------------- OrderBook
\* Order(id, p, q, s, ts): the constructor sets active; book_info is a
\* back-pointer the engine writes and never reads, and is left out.
Order(id, p, q, s, ts) ==
    [order_id |-> id, price |-> p, quantity |-> q, side |-> s,
     timestamp |-> ts, active |-> TRUE]

ErrorStats ==
    [unknown_message_types |-> 0, buffer_overflows |-> 0,
     incomplete_messages |-> 0, invalid_operations |-> 0]

\* The engine state an OrderBook method acts on.
EmptyOrderBook ==
    [message_buffer_ |-> <<>>, orders_ |-> EmptyMap, order_info_ |-> EmptyMap,
     book_ |-> EmptyBook, callback_ |-> "none", error_stats_ |-> ErrorStats]

\* What one call does: the new state, the value returned, the callbacks made.
Outcome(ob, ret, events) == [ob |-> ob, ret |-> ret, events |-> events]

\* if (callback_) callback_(type, order), made with the engine in state ob:
\* what the installed observer records.
\*   "none"   no callback is installed
\*   "type"   the callback logs the kind of each event
\*   "order"  the callback logs the kind and a copy of the Order it is shown
\*   "engine" the callback logs the kind, a copy of the Order and the orders,
\*            index and book of the engine as they are during the call
Callbacks == {"none", "type", "order", "engine"}

Notify(ob, type, order) ==
    IF ob.callback_ = "none" THEN <<>>
    ELSE IF ob.callback_ = "type" THEN << [type |-> type] >>
    ELSE IF ob.callback_ = "order" THEN << [type |-> type, order |-> order] >>
    ELSE << [type |-> type, order |-> order,
             at |-> [orders_ |-> ob.orders_, order_info_ |-> ob.order_info_,
                     book_ |-> ob.book_]] >>

\* A rejection that is not counted.
InvalidOperation_Uncounted(ob) == Outcome(ob, FALSE, <<>>)

\* error_stats_.invalid_operations++; return false;
InvalidOperation(ob) ==
    Outcome([ob EXCEPT !.error_stats_.invalid_operations = @ + 1], FALSE, <<>>)

\* Freed addresses something still points to: an index record, a level's head
\* or tail, or a link of an allocated node.
StaleRefs(ob) ==
    LET b == ob.book_
        lv(levels) == UNION {{levels[p].head, levels[p].tail} : p \in DOMAIN levels}
    IN ({ob.order_info_[i].node : i \in DOMAIN ob.order_info_}
        \cup lv(b.bids_) \cup lv(b.asks_)
        \cup UNION {{b.mem[a].prev, b.mem[a].next} : a \in b.live})
       \ (b.live \cup {nullptr})

\* The addresses `new OrderNode` may return.  Free addresses nothing refers to
\* are interchangeable, so one stands for them all (the one numbered like the
\* order, else the least); a freed address that is still referenced is told
\* apart by what refers to it, and is offered too.
AllocChoices(ob, order_id) ==
    LET free == NodeAddr \ ob.book_.live
    IN IF free = {} THEN {}
       ELSE {IF order_id \in free THEN order_id ELSE SetMin(free)}
            \cup (free \cap StaleRefs(ob))

\* The contents of a freed address nothing points to cannot be read again:
\* they are reset, so that states differing only there are one state.
Scrub(ob) ==
    LET keep == ob.book_.live \cup StaleRefs(ob)
    IN [ob EXCEPT !.book_.mem =
            [a \in NodeAddr |-> IF a \in keep THEN ob.book_.mem[a]
                                ELSE OrderNode(0, 0, nullptr, nullptr)]]

BookSideOf(side) == IF side \in {"B", "b"} THEN "Bid" ELSE "Ask"

\* The insertion half shared by add_order (lines 221-237) and replace_order
\* (lines 325-342): index record, book node, callback of kind `type`.
InsertOrder(ob, order, type) ==
    { LET r == onAdd(ob.book_, order.order_id, BookSideOf(order.side),
                     order.price, order.quantity, node)
          ob1 == [ob EXCEPT !.orders_ = MapPut(ob.orders_, order.order_id, order),
                            !.order_info_ = MapPut(ob.order_info_, order.order_id, r.info),
                            !.book_ = r.book]
      IN Outcome(ob1, TRUE, Notify(ob1, type, order))
      : node \in AllocChoices(ob, order.order_id) }

\* OrderBook::add_order: the set of outcomes, one per address new may return.
add_order(ob, order) ==
    IF order.order_id \in DOMAIN ob.orders_ THEN {Outcome(ob, FALSE, <<>>)}
    ELSE InsertOrder(ob, order, "A")

\* A removal that erases the index record and leaves the node in the book.
RemoveFromBook_KeepNode(ob, order_id) ==
    IF order_id \in DOMAIN ob.order_info_
    THEN [ob EXCEPT !.order_info_ = MapErase(ob.order_info_, order_id)]
    ELSE ob

\* The removal shared by cancel_order (lines 249-255) and replace_order
\* (lines 308-314): the book node and the index record.
RemoveFromBook(ob, order_id) ==
    IF order_id \in DOMAIN ob.order_info_
    THEN [ob EXCEPT !.book_ = onCancel(ob.book_, ob.order_info_[order_id]).book,
                    !.order_info_ = MapErase(ob.order_info_, order_id)]
    ELSE ob

\* A cancel_order that calls the observer before it touches the order.
cancel_order_NotifiesFirst(ob, order_id) ==
    IF order_id \notin DOMAIN ob.orders_ THEN InvalidOperation(ob)
    ELSE LET ob1 == RemoveFromBook(ob, order_id)
         IN Outcome([ob1 EXCEPT !.orders_ = MapErase(ob.orders_, order_id)],
                    TRUE, Notify(ob, "X", ob.orders_[order_id]))

\* OrderBook::cancel_order
cancel_order(ob, order_id) ==
    IF order_id \notin DOMAIN ob.orders_ THEN InvalidOperation(ob)
    ELSE LET ob1 == RemoveFromBook(ob, order_id)
             seen == [ob.orders_[order_id] EXCEPT !.active = FALSE]
             ob2 == [ob1 EXCEPT !.orders_ = MapPut(ob.orders_, order_id, seen)]
         IN Outcome([ob1 EXCEPT !.orders_ = MapErase(ob.orders_, order_id)],
                    TRUE, Notify(ob2, "X", seen))

\* An execute_order that leaves a filled order in the order table, inactive.
execute_order_KeepsFilled(ob, order_id, quantity) ==
    IF \/ order_id \notin DOMAIN ob.orders_
       \/ ~ob.orders_[order_id].active
       \/ ob.orders_[order_id].quantity < quantity
    THEN InvalidOperation(ob)
    ELSE LET o == ob.orders_[order_id]
             fully_filled == (o.quantity - quantity = 0)
             o1 == [o EXCEPT !.quantity = o.quantity - quantity,
                             !.active = IF fully_filled THEN FALSE ELSE o.active]
             has_info == order_id \in DOMAIN ob.order_info_
             r == IF has_info
                  THEN onExecute(ob.book_, ob.order_info_[order_id], quantity)
                  ELSE [book |-> ob.book_, info |-> 0]
             infos1 == IF ~has_info THEN ob.order_info_
                       ELSE IF fully_filled THEN MapErase(ob.order_info_, order_id)
                       ELSE MapPut(ob.order_info_, order_id, r.info)
             ob1 == [ob EXCEPT !.orders_ = MapPut(ob.orders_, order_id, o1),
                               !.order_info_ = infos1, !.book_ = r.book]
         IN Outcome(ob1, TRUE, Notify(ob1, "E", o1))

\* OrderBook::execute_order
execute_order(ob, order_id, quantity) ==
    IF \/ order_id \notin DOMAIN ob.orders_
       \/ ~ob.orders_[order_id].active
       \/ ob.orders_[order_id].quantity < quantity
    THEN InvalidOperation(ob)
    ELSE LET o == ob.orders_[order_id]
             fully_filled == (o.quantity - quantity = 0)
             o1 == [o EXCEPT !.quantity = o.quantity - quantity,
                             !.active = IF fully_filled THEN FALSE ELSE o.active]
             has_info == order_id \in DOMAIN ob.order_info_
             r == IF has_info
                  THEN onExecute(ob.book_, ob.order_info_[order_id], quantity)
                  ELSE [book |-> ob.book_, info |-> 0]
             infos1 == IF ~has_info THEN ob.order_info_
                       ELSE IF fully_filled THEN MapErase(ob.order_info_, order_id)
                       ELSE MapPut(ob.order_info_, order_id, r.info)
             orders1 == IF fully_filled THEN MapErase(ob.orders_, order_id)
                        ELSE MapPut(ob.orders_, order_id, o1)
             ob1 == [ob EXCEPT !.orders_ = MapPut(ob.orders_, order_id, o1),
                               !.order_info_ = infos1, !.book_ = r.book]
         IN Outcome([ob1 EXCEPT !.orders_ = orders1], TRUE, Notify(ob1, "E", o1))

\* A replace_order made of cancel_order and add_order, callbacks included.
replace_order_AsCancelAdd(ob, old_order_id, new_order_id, new_price, new_quantity) ==
    IF \/ old_order_id \notin DOMAIN ob.orders_
       \/ ~ob.orders_[old_order_id].active
    THEN {InvalidOperation(ob)}
    ELSE LET side == ob.orders_[old_order_id].side
             timestamp == ob.orders_[old_order_id].timestamp
             c == cancel_order(ob, old_order_id)
         IN {Outcome(a.ob, a.ret, c.events \o a.events) :
                a \in add_order(c.ob, Order(new_order_id, new_price, new_quantity,
                                            side, timestamp))}

\* A replace_order that looks for the new id before it removes the original.
replace_order_ChecksFirst(ob, old_order_id, new_order_id, new_price, new_quantity) ==
    IF \/ old_order_id \notin DOMAIN ob.orders_
       \/ ~ob.orders_[old_order_id].active
    THEN {InvalidOperation(ob)}
    ELSE IF new_order_id \in DOMAIN ob.orders_ \ {old_order_id}
    THEN {Outcome(ob, FALSE, <<>>)}
    ELSE LET side == ob.orders_[old_order_id].side
             timestamp == ob.orders_[old_order_id].timestamp
             ob1 == RemoveFromBook(ob, old_order_id)
             ob2 == [ob1 EXCEPT !.orders_ = MapErase(ob.orders_, old_order_id)]
             new_order == Order(new_order_id, new_price, new_quantity, side, timestamp)
         IN InsertOrder(ob2, new_order, "U")

\* OrderBook::replace_order
replace_order(ob, old_order_id, new_order_id, new_price, new_quantity) ==
    IF \/ old_order_id \notin DOMAIN ob.orders_
       \/ ~ob.orders_[old_order_id].active
    THEN {InvalidOperation(ob)}
    ELSE LET side == ob.orders_[old_order_id].side
             timestamp == ob.orders_[old_order_id].timestamp
             ob1 == RemoveFromBook(ob, old_order_id)
             ob2 == [ob1 EXCEPT !.orders_ = MapErase(ob.orders_, old_order_id)]
             new_order == Order(new_order_id, new_price, new_quantity, side, timestamp)
         IN IF new_order_id \in DOMAIN ob2.orders_ THEN {Outcome(ob2, FALSE, <<>>)}
            ELSE InsertOrder(ob2, new_order, "U")

\* OrderBook::find_order: the stored order, or nullptr.
find_order(ob, order_id) ==
    IF order_id \notin DOMAIN ob.orders_ \/ ~ob.orders_[order_id].active THEN nullptr
    ELSE ob.orders_[order_id]

get_order_count(ob) == Cardinality(DOMAIN ob.orders_)

get_active_order_count(ob) ==
    Cardinality({id \in DOMAIN ob.orders_ : ob.orders_[id].active})

get_best_bid(ob) == bestPrice(ob.book_.bids_, "Bid")

get_best_ask(ob) == bestPrice(ob.book_.asks_, "Ask")

get_depth(ob, levels) ==
    [bids |-> topK(ob.book_.bids_, "Bid", levels),
     asks |-> topK(ob.book_.asks_, "Ask", levels)]

\* ITCHParser::ParseResult
ParseResult(type, order_id, new_order_id, price, quantity, side, timestamp, bytes_consumed) ==
    [bytes_consumed |-> bytes_consumed, valid |-> TRUE, type |-> type,
     order_id |-> order_id, new_order_id |-> new_order_id, price |-> price,
     quantity |-> quantity, side |-> side, timestamp |-> timestamp]

\* A handle_message that takes only the cancelled shares off the order.
handle_message_PartialCancel(ob, result) ==
    IF result.type = "A"
    THEN add_order(ob, Order(result.order_id, result.price, result.quantity,
                             result.side, result.timestamp))
    ELSE IF result.type = "X"
    THEN {execute_order(ob, result.order_id, result.quantity)}
    ELSE IF result.type = "E"
    THEN {execute_order(ob, result.order_id, result.quantity)}
    ELSE IF result.type = "U"
    THEN replace_order(ob, result.order_id, result.new_order_id,
                       result.price, result.quantity)
    ELSE {Outcome(ob, FALSE, <<>>)}

\* OrderBook::handle_message: the outcomes of the call it dispatches to.
handle_message(ob, result) ==
    IF result.type = "A"
    THEN add_order(ob, Order(result.order_id, result.price, result.quantity,
                             result.side, result.timestamp))
    ELSE IF result.type = "X" THEN {cancel_order(ob, result.order_id)}
    ELSE IF result.type = "E"
    THEN {execute_order(ob, result.order_id, result.quantity)}
    ELSE IF result.type = "U"
    THEN replace_order(ob, result.order_id, result.new_order_id,
                       result.price, result.quantity)
    ELSE {Outcome(ob, FALSE, <<>>)}

\* ------------------------------------------------------------ bytes, chars
\* The char of each byte value 0..255: letters, digits and the space are
\* written as themselves, every other value by its hexadecimal name.
Ascii ==
    <<
       "0x00", "0x01", "0x02", "0x03", "0x04", "0x05", "0x06", "0x07",
       "0x08", "0x09", "0x0a", "0x0b", "0x0c", "0x0d", "0x0e", "0x0f",
       "0x10", "0x11", "0x12", "0x13", "0x14", "0x15", "0x16", "0x17",
       "0x18", "0x19", "0x1a", "0x1b", "0x1c", "0x1d", "0x1e", "0x1f",
       " ", "0x21", "0x22", "0x23", "0x24", "0x25", "0x26", "0x27",
       "0x28", "0x29", "0x2a", "0x2b", "0x2c", "0x2d", "0x2e", "0x2f",
       "0", "1", "2", "3", "4", "5", "6", "7",
       "8", "9", "0x3a", "0x3b", "0x3c", "0x3d", "0x3e", "0x3f",
       "0x40", "A", "B", "C", "D", "E", "F", "G",
       "H", "I", "J", "K", "L", "M", "N", "O",
       "P", "Q", "R", "S", "T", "U", "V", "W",
       "X", "Y", "Z", "0x5b", "0x5c", "0x5d", "0x5e", "0x5f",
       "0x60", "a", "b", "c", "d", "e", "f", "g",
       "h", "i", "j", "k", "l", "m", "n", "o",
       "p", "q", "r", "s", "t", "u", "v", "w",
       "x", "y", "z", "0x7b", "0x7c", "0x7d", "0x7e", "0x7f",
       "0x80", "0x81", "0x82", "0x83", "0x84", "0x85", "0x86", "0x87",
       "0x88", "0x89", "0x8a", "0x8b", "0x8c", "0x8d", "0x8e", "0x8f",
       "0x90", "0x91", "0x92", "0x93", "0x94", "0x95", "0x96", "0x97",
       "0x98", "0x99", "0x9a", "0x9b", "0x9c", "0x9d", "0x9e", "0x9f",
       "0xa0", "0xa1", "0xa2", "0xa3", "0xa4", "0xa5", "0xa6", "0xa7",
       "0xa8", "0xa9", "0xaa", "0xab", "0xac", "0xad", "0xae", "0xaf",
       "0xb0", "0xb1", "0xb2", "0xb3", "0xb4", "0xb5", "0xb6", "0xb7",
       "0xb8", "0xb9", "0xba", "0xbb", "0xbc", "0xbd", "0xbe", "0xbf",
       "0xc0", "0xc1", "0xc2", "0xc3", "0xc4", "0xc5", "0xc6", "0xc7",
       "0xc8", "0xc9", "0xca", "0xcb", "0xcc", "0xcd", "0xce", "0xcf",
       "0xd0", "0xd1", "0xd2", "0xd3", "0xd4", "0xd5", "0xd6", "0xd7",
       "0xd8", "0xd9", "0xda", "0xdb", "0xdc", "0xdd", "0xde", "0xdf",
       "0xe0", "0xe1", "0xe2", "0xe3", "0xe4", "0xe5", "0xe6", "0xe7",
       "0xe8", "0xe9", "0xea", "0xeb", "0xec", "0xed", "0xee", "0xef",
       "0xf0", "0xf1", "0xf2", "0xf3", "0xf4", "0xf5", "0xf6", "0xf7",
       "0xf8", "0xf9", "0xfa", "0xfb", "0xfc", "0xfd", "0xfe", "0xff"
    >>

Bytes == 0..255

\* static_cast<char>(byte) and the byte of a char
ToChar(b) == Ascii[b + 1]

ToByte(c) == CHOOSE b \in Bytes : Ascii[b + 1] = c

\* push_u16 / push_u32 / push_u64 and the timestamp loop of MessageBuilder:
\* the n low bytes of value, least significant first.
RECURSIVE LittleEndian(_, _)
LittleEndian(value, n) ==
    IF n = 0 THEN <<>>
    ELSE <<value % 256>> \o LittleEndian(value \div 256, n - 1)

\* MessageBuilder::build_add_order
build_add_order(order_id, price, quantity, side, timestamp) ==
    <<ToByte("A")>> \o LittleEndian(0, 2) \o LittleEndian(0, 2)
        \o LittleEndian(timestamp, 6) \o LittleEndian(order_id, 8)
        \o <<ToByte(side)>> \o LittleEndian(quantity, 4)
        \o <<ToByte("T"), ToByte("E"), ToByte("S"), ToByte("T"),
             ToByte(" "), ToByte(" "), ToByte(" "), ToByte(" ")>>
        \o LittleEndian(price, 4)

\* MessageBuilder::build_cancel_order
build_cancel_order(order_id, cancelled_shares) ==
    <<ToByte("X")>> \o LittleEndian(0, 2) \o LittleEndian(0, 2)
        \o <<0, 0, 0, 0, 0, 0>> \o LittleEndian(order_id, 8)
        \o LittleEndian(cancelled_shares, 4)

\* MessageBuilder::build_execute_order
build_execute_order(order_id, quantity) ==
    <<ToByte("E")>> \o LittleEndian(0, 2) \o LittleEndian(0, 2)
        \o <<0, 0, 0, 0, 0, 0>> \o LittleEndian(order_id, 8)
        \o LittleEndian(quantity, 4) \o LittleEndian(0, 8)

\* MessageBuilder::build_replace_order
build_replace_order(old_order_id, new_order_id, new_price, new_quantity, timestamp) ==
    <<ToByte("U")>> \o LittleEndian(0, 2) \o LittleEndian(0, 2)
        \o LittleEndian(timestamp, 6) \o LittleEndian(old_order_id, 8)
        \o LittleEndian(new_order_id, 8) \o LittleEndian(new_quantity, 4)
        \o LittleEndian(new_price, 4)

\* ------------------------------------------------------------ ITCHParser
ADD_MSG_SIZE == 36
CANCEL_MSG_SIZE == 23
EXECUTE_MSG_SIZE == 31
REPLACE_MSG_SIZE == 35
MAX_BUFFER_SIZE == 512

\* A length table that gives a Cancel the length of an Execute.
get_itch_message_length_CancelAsExecute(msg_type) ==
    IF msg_type = "A" THEN ADD_MSG_SIZE
    ELSE IF msg_type = "X" THEN EXECUTE_MSG_SIZE
    ELSE IF msg_type = "E" THEN EXECUTE_MSG_SIZE
    ELSE IF msg_type = "U" THEN REPLACE_MSG_SIZE
    ELSE 0

get_itch_message_length(msg_type) ==
    IF msg_type = "A" THEN ADD_MSG_SIZE
    ELSE IF msg_type = "X" THEN CANCEL_MSG_SIZE
    ELSE IF msg_type = "E" THEN EXECUTE_MSG_SIZE
    ELSE IF msg_type = "U" THEN REPLACE_MSG_SIZE
    ELSE 0

\* The loops of read_timestamp, read_u64 and read_u32: the n bytes at `offset`
\* (counted from 0, as in the source) assembled least significant first.
RECURSIVE ReadLittleEndian(_, _, _)
ReadLittleEndian(buf, offset, n) ==
    IF n = 0 THEN 0
    ELSE buf[offset + 1] + 256 * ReadLittleEndian(buf, offset + 1, n - 1)

read_timestamp(buffer, offset) == ReadLittleEndian(buffer, offset, 6)

read_u64(buf, offset) == ReadLittleEndian(buf, offset, 8)

read_u32(buf, offset) == ReadLittleEndian(buf, offset, 4)

\* std::optional<ParseResult>
nullopt == [has_value |-> FALSE]

Some(result) == [has_value |-> TRUE, value |-> result]

\* ITCHParser::parse_one.  Offsets are those the source reaches by advancing
\* `offset`: 1 past the type byte, 5 past locate and tracking, 11 past the
\* timestamp.
parse_one(buffer) ==
    IF buffer = <<>> THEN nullopt
    ELSE LET msg_type == ToChar(buffer[1])
             expected_length == get_itch_message_length(msg_type)
         IN IF expected_length = 0 THEN nullopt
            ELSE IF Len(buffer) < expected_length THEN nullopt
            ELSE IF msg_type = "A"
            THEN Some(ParseResult("A", read_u64(buffer, 11), 0, read_u32(buffer, 32),
                                  read_u32(buffer, 20), ToChar(buffer[19 + 1]),
                                  read_timestamp(buffer, 5), ADD_MSG_SIZE))
            ELSE IF msg_type = "X"
            THEN Some(ParseResult("X", read_u64(buffer, 11), 0, 0,
                                  read_u32(buffer, 19), ToChar(0), 0, CANCEL_MSG_SIZE))
            ELSE IF msg_type = "E"
            THEN Some(ParseResult("E", read_u64(buffer, 11), 0, 0,
                                  read_u32(buffer, 19), ToChar(0), 0, EXECUTE_MSG_SIZE))
            ELSE IF msg_type = "U"
            THEN Some(ParseResult("U", read_u64(buffer, 11), read_u64(buffer, 19),
                                  read_u32(buffer, 31), read_u32(buffer, 27), ToChar(0),
                                  read_timestamp(buffer, 5), REPLACE_MSG_SIZE))
            ELSE nullopt

\* ------------------------------------------------------------ DataFabric
FIFOStats ==
    [backpressure_events |-> 0, total_bytes_written |-> 0, total_bytes_dropped |-> 0,
     total_bytes_read |-> 0, max_depth_reached |-> 0]

DEFAULT_FIFO_DEPTH == 4096

\* DataFabric(max_depth): an empty queue of chunks.
DataFabric(max_depth) ==
    [fifo_ |-> <<>>, max_depth_bytes_ |-> max_depth, current_depth_bytes_ |-> 0,
     stats_ |-> FIFOStats]

\* A write_chunk that also turns away a chunk that would fill the FIFO exactly.
write_chunk_RejectsExactFit(fabric, chunk) ==
    IF fabric.current_depth_bytes_ + Len(chunk) >= fabric.max_depth_bytes_
    THEN [fabric |-> [fabric EXCEPT !.stats_.backpressure_events = @ + 1,
                                    !.stats_.total_bytes_dropped = @ + Len(chunk)],
          ret |-> FALSE]
    ELSE LET depth == fabric.current_depth_bytes_ + Len(chunk)
         IN [fabric |-> [fabric EXCEPT
                            !.fifo_ = Append(@, chunk),
                            !.current_depth_bytes_ = depth,
                            !.stats_.total_bytes_written = @ + Len(chunk),
                            !.stats_.max_depth_reached = IF depth > @ THEN depth ELSE @],
             ret |-> TRUE]

\* A write_chunk without the space check.
write_chunk_Unchecked(fabric, chunk) ==
    LET depth == fabric.current_depth_bytes_ + Len(chunk)
    IN [fabric |-> [fabric EXCEPT
                       !.fifo_ = Append(@, chunk),
                       !.current_depth_bytes_ = depth,
                       !.stats_.total_bytes_written = @ + Len(chunk),
                       !.stats_.max_depth_reached = IF depth > @ THEN depth ELSE @],
        ret |-> TRUE]

\* A write_chunk that reports backpressure and queues the chunk all the same.
write_chunk_RejectsButQueues(fabric, chunk) ==
    IF fabric.current_depth_bytes_ + Len(chunk) > fabric.max_depth_bytes_
    THEN [fabric |-> [fabric EXCEPT !.fifo_ = Append(@, chunk),
                                    !.stats_.backpressure_events = @ + 1,
                                    !.stats_.total_bytes_dropped = @ + Len(chunk)],
          ret |-> FALSE]
    ELSE LET depth == fabric.current_depth_bytes_ + Len(chunk)
         IN [fabric |-> [fabric EXCEPT
                            !.fifo_ = Append(@, chunk),
                            !.current_depth_bytes_ = depth,
                            !.stats_.total_bytes_written = @ + Len(chunk),
                            !.stats_.max_depth_reached = IF depth > @ THEN depth ELSE @],
             ret |-> TRUE]

\* DataFabric::write_chunk: [fabric, ret]
write_chunk(fabric, chunk) ==
    IF fabric.current_depth_bytes_ + Len(chunk) > fabric.max_depth_bytes_
    THEN [fabric |-> [fabric EXCEPT !.stats_.backpressure_events = @ + 1,
                                    !.stats_.total_bytes_dropped = @ + Len(chunk)],
          ret |-> FALSE]
    ELSE LET depth == fabric.current_depth_bytes_ + Len(chunk)
         IN [fabric |-> [fabric EXCEPT
                            !.fifo_ = Append(@, chunk),
                            !.current_depth_bytes_ = depth,
                            !.stats_.total_bytes_written = @ + Len(chunk),
                            !.stats_.max_depth_reached = IF depth > @ THEN depth ELSE @],
             ret |-> TRUE]

\* A read_chunk that does not count the bytes it hands out.
read_chunk_Uncounted(fabric) ==
    IF fabric.fifo_ = <<>> THEN [fabric |-> fabric, ret |-> FALSE, out |-> <<>>]
    ELSE LET chunk_size == Len(Head(fabric.fifo_))
         IN [fabric |-> [fabric EXCEPT
                            !.fifo_ = Tail(@),
                            !.current_depth_bytes_ = @ - chunk_size],
             ret |-> TRUE, out |-> Head(fabric.fifo_)]

\* A read_chunk that takes the newest chunk instead of the oldest.
read_chunk_Newest(fabric) ==
    IF fabric.fifo_ = <<>> THEN [fabric |-> fabric, ret |-> FALSE, out |-> <<>>]
    ELSE LET n == Len(fabric.fifo_)
             chunk_size == Len(fabric.fifo_[n])
         IN [fabric |-> [fabric EXCEPT
                            !.fifo_ = SubSeq(@, 1, n - 1),
                            !.current_depth_bytes_ = @ - chunk_size,
                            !.stats_.total_bytes_read = @ + chunk_size],
             ret |-> TRUE, out |-> fabric.fifo_[n]]

\* DataFabric::read_chunk: [fabric, ret, out]; `out` is written only on success.
read_chunk(fabric) ==
    IF fabric.fifo_ = <<>> THEN [fabric |-> fabric, ret |-> FALSE, out |-> <<>>]
    ELSE LET chunk_size == Len(Head(fabric.fifo_))
         IN [fabric |-> [fabric EXCEPT
                            !.fifo_ = Tail(@),
                            !.current_depth_bytes_ = @ - chunk_size,
                            !.stats_.total_bytes_read = @ + chunk_size],
             ret |-> TRUE, out |-> Head(fabric.fifo_)]

\* DataFabric::reset_stats
reset_stats(fabric) == [fabric EXCEPT !.stats_ = FIFOStats]

\* ----------------------------------------------------- OrderBook::process
\* Step 1 of process(): read chunks until the fabric is empty, appending each
\* to the message buffer.  s = [fabric, buffer, chunks], chunks being those read.
RECURSIVE Drain(_)
Drain(s) ==
    LET r == read_chunk(s.fabric)
    IN IF ~r.ret THEN s
       ELSE ByValue(Drain, [fabric |-> r.fabric, buffer |-> s.buffer \o r.out,
                            chunks |-> Append(s.chunks, r.out)])

\* A resynchronisation that gives up the whole buffer at an unknown byte.
UnknownRun_ToEnd(buffer) == Len(buffer)

\* How many bytes at the front of the buffer start no message: so many
\* iterations in a row take the unknown-type branch of the loop.
UnknownRun(buffer) ==
    LET Known(i) == get_itch_message_length(ToChar(buffer[i])) # 0
    IN IF \E i \in 1..Len(buffer) : Known(i)
       THEN SetMin({i \in 1..Len(buffer) : Known(i)}) - 1
       ELSE Len(buffer)

\* A parse loop that stops after a message whose operation was rejected.
RECURSIVE ParseLoop_StopsAtRejected(_)
ParseLoop_StopsAtRejected(s) ==
    LET buffer == s.ob.message_buffer_
        result_opt == parse_one(buffer)
        After(o) == [ob |-> [o.ob EXCEPT !.message_buffer_ =
                                SubSeq(buffer, result_opt.value.bytes_consumed + 1,
                                       Len(buffer))],
                     events |-> s.events \o o.events,
                     dispatched |-> Append(s.dispatched,
                                           [msg |-> result_opt.value, ret |-> o.ret]),
                     iterations |-> s.iterations + 1]
    IN IF ~result_opt.has_value
       THEN IF buffer # <<>>
            THEN IF get_itch_message_length(ToChar(buffer[1])) = 0
                 THEN ByValue(ParseLoop_StopsAtRejected,
                              [s EXCEPT !.ob.message_buffer_ =
                                            SubSeq(buffer, UnknownRun(buffer) + 1,
                                                   Len(buffer)),
                                        !.ob.error_stats_.unknown_message_types =
                                            @ + UnknownRun(buffer),
                                        !.iterations = @ + UnknownRun(buffer)])
                 ELSE {[s EXCEPT !.ob.error_stats_.incomplete_messages = @ + 1,
                                 !.iterations = @ + 1]}
            ELSE {[s EXCEPT !.iterations = @ + 1]}
       ELSE UNION { IF o.ret THEN ParseLoop_StopsAtRejected(After(o)) ELSE {After(o)} :
                      o \in handle_message(s.ob, result_opt.value) }

\* A parse loop that spends an iteration on a byte that starts no message
\* before the iteration that erases it.
RECURSIVE ParseLoop_LooksTwice(_)
ParseLoop_LooksTwice(s) ==
    LET buffer == s.ob.message_buffer_
        result_opt == parse_one(buffer)
    IN IF ~result_opt.has_value
       THEN IF buffer # <<>>
            THEN IF get_itch_message_length(ToChar(buffer[1])) = 0
                 THEN ByValue(ParseLoop_LooksTwice,
                              [s EXCEPT !.ob.message_buffer_ =
                                            SubSeq(buffer, UnknownRun(buffer) + 1,
                                                   Len(buffer)),
                                        !.ob.error_stats_.unknown_message_types =
                                            @ + UnknownRun(buffer),
                                        !.iterations = @ + 2 * UnknownRun(buffer)])
                 ELSE {[s EXCEPT !.ob.error_stats_.incomplete_messages = @ + 1,
                                 !.iterations = @ + 1]}
            ELSE {[s EXCEPT !.iterations = @ + 1]}
       ELSE UNION { ParseLoop_LooksTwice(next) :
                      next \in { [ob |-> [o.ob EXCEPT !.message_buffer_ =
                                            SubSeq(buffer,
                                                   result_opt.value.bytes_consumed + 1,
                                                   Len(buffer))],
                                  events |-> s.events \o o.events,
                                  dispatched |->
                                      Append(s.dispatched,
                                             [msg |-> result_opt.value, ret |-> o.ret]),
                                  iterations |-> s.iterations + 1] :
                                 o \in handle_message(s.ob, result_opt.value) } }

\* A parse loop that stops at a byte that starts no message and leaves it in
\* the buffer.
RECURSIVE ParseLoop_StopsAtUnknown(_)
ParseLoop_StopsAtUnknown(s) ==
    LET buffer == s.ob.message_buffer_
        result_opt == parse_one(buffer)
    IN IF ~result_opt.has_value
       THEN IF buffer # <<>> /\ get_itch_message_length(ToChar(buffer[1])) # 0
            THEN {[s EXCEPT !.ob.error_stats_.incomplete_messages = @ + 1,
                            !.iterations = @ + 1]}
            ELSE {[s EXCEPT !.iterations = @ + 1]}
       ELSE UNION { ParseLoop_StopsAtUnknown(next) :
                      next \in { [ob |-> [o.ob EXCEPT !.message_buffer_ =
                                            SubSeq(buffer,
                                                   result_opt.value.bytes_consumed + 1,
                                                   Len(buffer))],
                                  events |-> s.events \o o.events,
                                  dispatched |->
                                      Append(s.dispatched,
                                             [msg |-> result_opt.value, ret |-> o.ret]),
                                  iterations |-> s.iterations + 1] :
                                 o \in handle_message(s.ob, result_opt.value) } }

\* A parse loop that stops after the first message it dispatches.
ParseLoop_Once(s) ==
    LET buffer0 == s.ob.message_buffer_
        skipped == UnknownRun(buffer0)
        buffer == SubSeq(buffer0, skipped + 1, Len(buffer0))
        ob1 == [s.ob EXCEPT !.message_buffer_ = buffer,
                            !.error_stats_.unknown_message_types = @ + skipped]
        result_opt == parse_one(buffer)
    IN IF ~result_opt.has_value
       THEN IF buffer # <<>>
            THEN {[s EXCEPT !.ob = [ob1 EXCEPT !.error_stats_.incomplete_messages = @ + 1],
                            !.iterations = @ + skipped + 1]}
            ELSE {[s EXCEPT !.ob = ob1, !.iterations = @ + skipped + 1]}
       ELSE { [ob |-> [o.ob EXCEPT !.message_buffer_ =
                          SubSeq(buffer, result_opt.value.bytes_consumed + 1,
                                 Len(buffer))],
               events |-> s.events \o o.events,
               dispatched |-> Append(s.dispatched,
                                     [msg |-> result_opt.value, ret |-> o.ret]),
               iterations |-> s.iterations + skipped + 1] :
              o \in handle_message(ob1, result_opt.value) }

\* Step 3 of process(): the parse-dispatch loop.  s = [ob, events, dispatched,
\* iterations], dispatched being the messages handed to handle_message with
\* what the operation returned and iterations the times the body of
\* while (true) was entered; the result is the set of states the loop can end
\* in.  Consecutive iterations that skip one unknown byte each are taken
\* together.
RECURSIVE ParseLoop(_)
ParseLoop(s) ==
    LET buffer == s.ob.message_buffer_
        result_opt == parse_one(buffer)
    IN IF ~result_opt.has_value
       THEN IF buffer # <<>>
            THEN IF get_itch_message_length(ToChar(buffer[1])) = 0
                 THEN ByValue(ParseLoop,
                              [s EXCEPT !.ob.message_buffer_ =
                                            SubSeq(buffer, UnknownRun(buffer) + 1,
                                                   Len(buffer)),
                                        !.ob.error_stats_.unknown_message_types =
                                            @ + UnknownRun(buffer),
                                        !.iterations = @ + UnknownRun(buffer)])
                 ELSE {[s EXCEPT !.ob.error_stats_.incomplete_messages = @ + 1,
                                 !.iterations = @ + 1]}
            ELSE {[s EXCEPT !.iterations = @ + 1]}
       ELSE IF ~result_opt.value.valid \/ result_opt.value.bytes_consumed = 0
       THEN {[s EXCEPT !.iterations = @ + 1]}
       ELSE UNION { ParseLoop(next) :
                      next \in { [ob |-> [o.ob EXCEPT !.message_buffer_ =
                                            SubSeq(buffer,
                                                   result_opt.value.bytes_consumed + 1,
                                                   Len(buffer))],
                                  events |-> s.events \o o.events,
                                  dispatched |->
                                      Append(s.dispatched,
                                             [msg |-> result_opt.value, ret |-> o.ret]),
                                  iterations |-> s.iterations + 1] :
                                 o \in handle_message(s.ob, result_opt.value) } }

\* A process() that keeps an incomplete message without counting it.
process_UncountedPartial(ob, fabric) ==
    LET d == Drain([fabric |-> fabric, buffer |-> ob.message_buffer_, chunks |-> <<>>])
    IN IF Len(d.buffer) > MAX_BUFFER_SIZE
       THEN {[ob |-> [ob EXCEPT !.message_buffer_ = <<>>,
                                !.error_stats_.buffer_overflows = @ + 1],
              fabric |-> d.fabric, events |-> <<>>, chunks |-> d.chunks,
              dispatched |-> <<>>, iterations |-> 0]}
       ELSE {[ob |-> [r.ob EXCEPT !.error_stats_.incomplete_messages =
                                      ob.error_stats_.incomplete_messages],
              fabric |-> d.fabric, events |-> r.events, chunks |-> d.chunks,
              dispatched |-> r.dispatched,
              iterations |-> r.iterations] :
             r \in ParseLoop([ob |-> [ob EXCEPT !.message_buffer_ = d.buffer],
                              events |-> <<>>, dispatched |-> <<>>,
                              iterations |-> 0])}

\* A process() that takes a buffer of exactly MAX_BUFFER_SIZE for an overflow.
process_OverflowsAtLimit(ob, fabric) ==
    LET d == Drain([fabric |-> fabric, buffer |-> ob.message_buffer_, chunks |-> <<>>])
    IN IF Len(d.buffer) >= MAX_BUFFER_SIZE
       THEN {[ob |-> [ob EXCEPT !.message_buffer_ = <<>>,
                                !.error_stats_.buffer_overflows = @ + 1],
              fabric |-> d.fabric, events |-> <<>>, chunks |-> d.chunks,
              dispatched |-> <<>>, iterations |-> 0]}
       ELSE {[ob |-> r.ob, fabric |-> d.fabric, events |-> r.events,
              chunks |-> d.chunks, dispatched |-> r.dispatched,
              iterations |-> r.iterations] :
             r \in ParseLoop([ob |-> [ob EXCEPT !.message_buffer_ = d.buffer],
                              events |-> <<>>, dispatched |-> <<>>,
                              iterations |-> 0])}

\* A process() that counts an overflow and returns with the buffer as it is.
process_KeepsOverflow(ob, fabric) ==
    LET d == Drain([fabric |-> fabric, buffer |-> ob.message_buffer_, chunks |-> <<>>])
    IN IF Len(d.buffer) > MAX_BUFFER_SIZE
       THEN {[ob |-> [ob EXCEPT !.message_buffer_ = d.buffer,
                                !.error_stats_.buffer_overflows = @ + 1],
              fabric |-> d.fabric, events |-> <<>>, chunks |-> d.chunks,
              dispatched |-> <<>>, iterations |-> 0]}
       ELSE {[ob |-> r.ob, fabric |-> d.fabric, events |-> r.events,
              chunks |-> d.chunks, dispatched |-> r.dispatched,
              iterations |-> r.iterations] :
             r \in ParseLoop([ob |-> [ob EXCEPT !.message_buffer_ = d.buffer],
                              events |-> <<>>, dispatched |-> <<>>,
                              iterations |-> 0])}

\* OrderBook::process: the set of [ob, fabric, events, chunks, dispatched] it
\* can end in.
process(ob, fabric) ==
    LET d == Drain([fabric |-> fabric, buffer |-> ob.message_buffer_, chunks |-> <<>>])
    IN IF Len(d.buffer) > MAX_BUFFER_SIZE
       THEN {[ob |-> [ob EXCEPT !.message_buffer_ = <<>>,
                                !.error_stats_.buffer_overflows = @ + 1],
              fabric |-> d.fabric, events |-> <<>>, chunks |-> d.chunks,
              dispatched |-> <<>>, iterations |-> 0]}
       ELSE {[ob |-> r.ob, fabric |-> d.fabric, events |-> r.events,
              chunks |-> d.chunks, dispatched |-> r.dispatched,
              iterations |-> r.iterations] :
             r \in ParseLoop([ob |-> [ob EXCEPT !.message_buffer_ = d.buffer],
                              events |-> <<>>, dispatched |-> <<>>,
                              iterations |-> 0])}

\* ------------------------------------------------------------------ state
VARIABLES
    fabric_,          \* the DataFabric the OrderBook reads from
    message_buffer_,  \* OrderBook::message_buffer_, the reassembly buffer
    orders_,          \* OrderBook::orders_      : order_id -> Order
    order_info_,      \* OrderBook::order_info_  : order_id -> OrderInfo
    book_,            \* OrderBook::book_ with the heap of its OrderNodes
    error_stats_,     \* OrderBook::error_stats_
    callback_,        \* OrderBook::callback_, the observer installed
    takes,            \* aggressive takes made so far
    crashed,          \* the process was aborted on undefined behaviour
    last,             \* the last call: its kind, result, callbacks and trades
    hist              \* what the producer and the readers of the fabric have seen

vars == <<fabric_, message_buffer_, orders_, order_info_, book_, callback_,
          error_stats_, takes, crashed, last, hist>>

OB == [message_buffer_ |-> message_buffer_, orders_ |-> orders_,
       order_info_ |-> order_info_, book_ |-> book_,
       callback_ |-> callback_, error_stats_ |-> error_stats_]

\* hist.accepted  the chunks write_chunk accepted, in order
\* hist.returned  the chunks read_chunk returned, in order
\* hist.run       the sizes of the chunks offered since the fabric was last
\*                empty, while nothing has been read since (run_ok)
\* hist.writes, hist.processes  calls made so far
\* hist.stream    the bytes the producer has to send, when it sends a stream
\* hist.sent      how many bytes the producer has offered to write_chunk
\* hist.clean     the stream as it was before bytes that start no message were
\*                inserted between two of its messages
\* hist.inserted  how many bytes were inserted
\* hist.calls     operations made on resting orders around repeated takes
\* hist.events    every observer call so far, in order
\* hist.dispatched  every message process() handed to handle_message, in order
\* hist.iterations  iterations of the parse loop in the last process() call
NoHistory ==
    [accepted |-> <<>>, returned |-> <<>>, run |-> <<>>, run_ok |-> TRUE,
     writes |-> 0, processes |-> 0, stream |-> <<>>, sent |-> 0,
     clean |-> <<>>, inserted |-> 0, calls |-> 0, events |-> <<>>, dispatched |-> <<>>,
     iterations |-> 0]

NoCall == [type |-> "", ret |-> FALSE, events |-> <<>>, trades |-> <<>>]

InitWith(cb) ==
    /\ fabric_ = DataFabric(FifoDepth)
    /\ message_buffer_ = <<>>
    /\ hist = NoHistory
    /\ orders_ = EmptyMap
    /\ order_info_ = EmptyMap
    /\ book_ = EmptyBook
    /\ callback_ = cb
    /\ error_stats_ = ErrorStats
    /\ takes = 0
    /\ crashed = FALSE
    /\ last = NoCall

Init == InitWith("type")

\* A call returns outcome `o`.  A call that ran into undefined behaviour either
\* went on with the memory as it was, or was aborted by the runtime; what the
\* program does after that is not followed further.
Return(o, type, trades) ==
    /\ ~crashed
    /\ ~book_.ub
    /\ o.ob.error_stats_.invalid_operations <= MaxInvalid
    /\ \E abort \in (IF o.ob.book_.ub /\ ~book_.ub THEN BOOLEAN ELSE {FALSE}) :
          /\ crashed' = abort
          /\ callback_' = callback_
          /\ message_buffer_' = IF abort THEN message_buffer_ ELSE o.ob.message_buffer_
          /\ orders_' = IF abort THEN orders_ ELSE o.ob.orders_
          /\ order_info_' = IF abort THEN order_info_ ELSE o.ob.order_info_
          /\ book_' = IF abort THEN book_ ELSE Scrub(o.ob).book_
          /\ error_stats_' = IF abort THEN error_stats_ ELSE o.ob.error_stats_
          /\ last' = IF abort THEN NoCall
                     ELSE [type |-> type, ret |-> o.ret, events |-> o.events,
                           trades |-> trades]

\* process() hands a complete message to handle_message, which forwards it to
\* add_order, cancel_order, execute_order or replace_order; a host calling one
\* of these methods directly takes the same step.
MessageStep(result) ==
    \E o \in handle_message(OB, result) : Return(o, result.type, <<>>)

\* Executed quantities: every quantity an order can have, and one above.
ExecQtys == 0..(MaxQty + 1)

\* The messages a producer sends, each built by MessageBuilder and decoded by
\* the parser, once.
WireAdd ==
    [id \in OrderIds, p \in Prices, q \in Qtys, s \in SideChars, ts \in Timestamps |->
        parse_one(build_add_order(id, p, q, s, ts)).value]

WireCancel ==
    [id \in OrderIds, q \in Qtys |-> parse_one(build_cancel_order(id, q)).value]

WireExecute ==
    [id \in OrderIds, q \in ExecQtys |-> parse_one(build_execute_order(id, q)).value]

WireReplace ==
    [old \in OrderIds, new \in OrderIds, p \in Prices, q \in Qtys, ts \in ReplaceStamps |->
        parse_one(build_replace_order(old, new, p, q, ts)).value]

AddMsg(id, p, q, s, ts) == WireAdd[id, p, q, s, ts]

CancelMsg(id, q) == WireCancel[id, q]

ExecuteMsg(id, q) == WireExecute[id, q]

ReplaceMsg(old, new, p, q, ts) == WireReplace[old, new, p, q, ts]

AddOrder ==
    /\ \E id \in OrderIds, p \in Prices, q \in Qtys, s \in SideChars, ts \in Timestamps :
          MessageStep(AddMsg(id, p, q, s, ts))
    /\ UNCHANGED <<fabric_, hist, takes>>

CancelOrder ==
    /\ \E id \in OrderIds, q \in Qtys : MessageStep(CancelMsg(id, q))
    /\ UNCHANGED <<fabric_, hist, takes>>

ExecuteOrder ==
    /\ \E id \in OrderIds, q \in ExecQtys : MessageStep(ExecuteMsg(id, q))
    /\ UNCHANGED <<fabric_, hist, takes>>

ReplaceOrder ==
    /\ \E old \in OrderIds, new \in OrderIds, p \in Prices, q \in Qtys,
          ts \in ReplaceStamps :
          MessageStep(ReplaceMsg(old, new, p, q, ts))
    /\ UNCHANGED <<fabric_, hist, takes>>

\* A host takes liquidity through OrderBookEngine::onAggressive.
AggressiveStep(side, q) ==
    /\ takes' = takes + 1
    /\ UNCHANGED <<fabric_, hist>>
    /\ \E r \in {onAggressive(book_, side, q)} :
          \E o \in {Outcome([OB EXCEPT !.book_ = r.book], r.filled, <<>>)} :
             Return(o, "M", r.trades)

Aggressive ==
    /\ takes < MaxTakes
    /\ \E side \in {"Bid", "Ask"}, q \in 1..MaxQty : AggressiveStep(side, q)

Next == AddOrder \/ CancelOrder \/ ExecuteOrder \/ ReplaceOrder

Spec == Init /\ [][Next]_vars

\* The same engine with an observer that keeps a copy of every Order it is shown.
SpecObserved == InitWith("order") /\ [][Next]_vars

\* The engine with an observer that also keeps the state of the engine it is
\* called in.
SpecWatched == InitWith("engine") /\ [][Next]_vars

NextAgg ==
    AddOrder \/ CancelOrder \/ ExecuteOrder \/ ReplaceOrder \/ Aggressive

SpecAgg == Init /\ [][NextAgg]_vars

\* Sell orders of quantity 1 under one more order id than elsewhere, up to
\* MaxCalls operations on them, and a buyer who takes 1 up to MaxTakes + 1
\* times: few enough inputs to follow what the operations after a match do to
\* the book.
RestingIds == 1..(MaxOrderId + 1)

AddResting ==
    /\ hist.calls < MaxCalls
    /\ \E id \in RestingIds, p \in Prices :
          MessageStep(parse_one(build_add_order(id, p, 1, "S", 1)).value)
    /\ hist' = [hist EXCEPT !.calls = @ + 1]
    /\ UNCHANGED <<fabric_, takes>>

CancelResting ==
    /\ hist.calls < MaxCalls
    /\ \E id \in RestingIds :
          MessageStep(parse_one(build_cancel_order(id, 0)).value)
    /\ hist' = [hist EXCEPT !.calls = @ + 1]
    /\ UNCHANGED <<fabric_, takes>>

ExecuteResting ==
    /\ hist.calls < MaxCalls
    /\ \E id \in RestingIds :
          MessageStep(parse_one(build_execute_order(id, 1)).value)
    /\ hist' = [hist EXCEPT !.calls = @ + 1]
    /\ UNCHANGED <<fabric_, takes>>

ReplaceResting ==
    /\ hist.calls < MaxCalls
    /\ \E old \in RestingIds, new \in RestingIds, p \in Prices :
          MessageStep(parse_one(build_replace_order(old, new, p, 1, 1)).value)
    /\ hist' = [hist EXCEPT !.calls = @ + 1]
    /\ UNCHANGED <<fabric_, takes>>

TakeAgain ==
    /\ takes < MaxTakes + 1
    /\ AggressiveStep("Bid", 1)

NextRematch ==
    AddResting \/ CancelResting \/ ExecuteResting \/ ReplaceResting \/ TakeAgain

SpecRematch == Init /\ [][NextRematch]_vars

\* ------------------------------------------------------- the byte stream
\* The chunks a producer offers: a whole Add, a whole Cancel of the same order,
\* sixteen bytes and one byte that start no message, and a chunk of no bytes.
AddBytes == build_add_order(1, 1, 1, "B", 1)

CancelBytes == build_cancel_order(1, 0)

PadLen == 16

Chunks == {AddBytes, CancelBytes, [i \in 1..PadLen |-> 0], <<0>>, <<>>}

\* What a read leaves of the run of writes into an empty fabric.
AfterRead(h, fabric, chunks) ==
    IF chunks = <<>> THEN h
    ELSE [h EXCEPT !.returned = @ \o chunks, !.run = <<>>,
                   !.run_ok = (fabric.fifo_ = <<>>)]

\* The producer calls write_chunk(chunk).
WriteStep(chunk) ==
    LET r == write_chunk(fabric_, chunk)
    IN /\ fabric_' = r.fabric
       /\ hist' = [hist EXCEPT !.accepted = IF r.ret THEN Append(@, chunk) ELSE @,
                               !.run = Append(@, Len(chunk)),
                               !.writes = @ + 1,
                               !.sent = @ + Len(chunk)]
       /\ last' = [type |-> "w", ret |-> r.ret, events |-> <<>>, trades |-> <<>>]
       /\ UNCHANGED <<message_buffer_, orders_, order_info_, book_, callback_,
                      error_stats_, takes, crashed>>

WriteChunk ==
    /\ hist.writes < MaxWrites
    /\ \E chunk \in Chunks : WriteStep(chunk)

\* A consumer calls read_chunk(out).
ReadChunk ==
    LET r == read_chunk(fabric_)
    IN /\ fabric_' = r.fabric
       /\ hist' = AfterRead(hist, r.fabric, IF r.ret THEN <<r.out>> ELSE <<>>)
       /\ last' = [type |-> "r", ret |-> r.ret, events |-> <<>>, trades |-> <<>>]
       /\ UNCHANGED <<message_buffer_, orders_, order_info_, book_, callback_,
                      error_stats_, takes, crashed>>

\* The host calls reset_stats().
ResetStats ==
    /\ fabric_' = reset_stats(fabric_)
    /\ last' = [type |-> "z", ret |-> TRUE, events |-> <<>>, trades |-> <<>>]
    /\ UNCHANGED <<message_buffer_, orders_, order_info_, book_, callback_,
                   error_stats_, takes, crashed, hist>>

\* The host calls process().
Process ==
    /\ hist.processes < MaxProcess
    /\ \E r \in process(OB, fabric_) :
          /\ \E o \in {Outcome(r.ob, TRUE, r.events)} : Return(o, "p", <<>>)
          /\ fabric_' = r.fabric
          /\ hist' = [AfterRead(hist, r.fabric, r.chunks) EXCEPT
                         !.processes = @ + 1,
                         !.events = @ \o r.events,
                         !.dispatched = @ \o r.dispatched,
                         !.iterations = r.iterations]
    /\ takes' = takes

NextFifo == WriteChunk \/ ReadChunk \/ ResetStats \/ Process

SpecFifo == Init /\ [][NextFifo]_vars

\* ------------------------------------------------------ a message stream
RECURSIVE Repeat(_, _)
Repeat(bytes, n) == IF n = 0 THEN <<>> ELSE bytes \o Repeat(bytes, n - 1)

\* A burst of Adds: the fewest that do not fit the reassembly buffer together.
Burst == Repeat(build_add_order(1, 1, 1, "B", 1), MAX_BUFFER_SIZE \div ADD_MSG_SIZE + 1)

\* The streams a producer sends: an Add followed by an Execute, a Cancel or a
\* Replace of the order, two Adds, and a burst of Adds.
Streams ==
    { build_add_order(1, 1, 2, "B", 1) \o build_execute_order(1, 1),
      build_add_order(1, 1, 1, "B", 1) \o build_cancel_order(1, 0),
      build_add_order(1, 2, 1, "B", 1) \o build_replace_order(1, 2, 1, 2, 2),
      build_add_order(1, 1, 1, "S", 1) \o build_add_order(2, 1, 1, "S", 1),
      Burst }

\* Bytes that start no message: none is 'A', 'X', 'E' or 'U'.
Junk == <<0, 66, 90>>

\* The stream with `bytes` put in after its first `at` bytes.
Insert(stream, at, bytes) ==
    SubSeq(stream, 1, at) \o bytes \o SubSeq(stream, at + 1, Len(stream))

\* Streams with junk between their first and second message: one byte or
\* three after the Add of a short stream, and as many after the first of a run
\* of Adds as bring a stream that fits the reassembly buffer to exactly its
\* size, and one more.
JunkStreams ==
    LET add == build_add_order(1, 1, 1, "B", 1)
        run == Repeat(add, MAX_BUFFER_SIZE \div ADD_MSG_SIZE)
        room == MAX_BUFFER_SIZE - Len(run)
        fills == {SubSeq(Repeat(Junk, 3), 1, n) : n \in {room, room + 1}}
    IN {[NoHistory EXCEPT !.stream = Insert(M, ADD_MSG_SIZE, J), !.clean = M,
                          !.inserted = Len(J)] :
           M \in {build_add_order(1, 1, 2, "B", 1) \o build_execute_order(1, 1)},
           J \in {<<0>>, Junk}}
       \cup {[NoHistory EXCEPT !.stream = Insert(run, ADD_MSG_SIZE, fill),
                               !.clean = run, !.inserted = Len(fill)] :
                fill \in fills}

\* An engine with an observer that keeps the Orders it is shown, behind a
\* fabric of StreamDepth bytes or of the default depth, and a producer about
\* to send one stream.
InitStream ==
    /\ fabric_ \in {DataFabric(StreamDepth), DataFabric(DEFAULT_FIFO_DEPTH)}
    /\ message_buffer_ = <<>>
    /\ hist \in {[NoHistory EXCEPT !.stream = M, !.clean = M] : M \in Streams}
                \cup JunkStreams
    /\ orders_ = EmptyMap
    /\ order_info_ = EmptyMap
    /\ book_ = EmptyBook
    /\ callback_ = "order"
    /\ error_stats_ = ErrorStats
    /\ takes = 0
    /\ crashed = FALSE
    /\ last = NoCall

\* The sizes of the chunk a producer cuts off `left` bytes: a byte or two, the
\* start of a header, sizes around those of the messages, and all that is left.
ChunkLens(left) ==
    {n \in {1, 2, 15, 23, 31, 35, 36, 37} : n < left} \cup {n \in {left} : n > 0}

\* The producer writes the next bytes of its stream as one chunk, cut inside
\* or between messages, as long as write_chunk has accepted what it wrote
\* before.
SendChunk ==
    /\ hist.writes < MaxWrites
    /\ fabric_.stats_.backpressure_events = 0
    /\ \E n \in ChunkLens(Len(hist.stream) - hist.sent) :
          WriteStep(SubSeq(hist.stream, hist.sent + 1, hist.sent + n))

NextStream == SendChunk \/ Process

SpecStream == InitStream /\ [][NextStream]_vars

\* Streams with a message whose operation is rejected, and messages after it:
\* an Add of an id that is stored, a Cancel, an Execute and a Replace of an id
\* that is not, an Execute of more than the order has, and a Replace to an id
\* that is stored.
RejectedStreams ==
    { build_add_order(1, 1, 1, "B", 1) \o build_add_order(1, 2, 2, "S", 1)
        \o build_add_order(2, 1, 1, "S", 1),
      build_cancel_order(1, 0) \o build_add_order(1, 1, 1, "B", 1),
      build_execute_order(1, 1) \o build_add_order(1, 1, 1, "B", 1),
      build_replace_order(1, 2, 1, 1, 1) \o build_add_order(1, 1, 1, "B", 1),
      build_add_order(1, 1, 1, "B", 1) \o build_execute_order(1, 2)
        \o build_cancel_order(1, 0),
      build_add_order(1, 1, 1, "B", 1) \o build_add_order(2, 1, 1, "B", 1)
        \o build_replace_order(1, 2, 2, 1, 1) \o build_add_order(1, 2, 1, "S", 1) }

\* The engine of InitStream and a producer about to send one of these.
InitRejected ==
    /\ fabric_ \in {DataFabric(StreamDepth), DataFabric(DEFAULT_FIFO_DEPTH)}
    /\ message_buffer_ = <<>>
    /\ hist \in {[NoHistory EXCEPT !.stream = M, !.clean = M] : M \in RejectedStreams}
    /\ orders_ = EmptyMap
    /\ order_info_ = EmptyMap
    /\ book_ = EmptyBook
    /\ callback_ = "order"
    /\ error_stats_ = ErrorStats
    /\ takes = 0
    /\ crashed = FALSE
    /\ last = NoCall

SpecRejected == InitRejected /\ [][NextStream]_vars

\* ------------------------------------------------------ the parser alone
\* The buffers the parser is given: the first n bytes of a message of each
\* type followed by the start of another message, for every n up to MaxExtra
\* bytes past the message, and the same with a first byte that starts no
\* message.
ParseInputs ==
    LET messages == {build_add_order(1, 1, 1, "B", 1), build_cancel_order(1, 0),
                     build_execute_order(1, 1), build_replace_order(1, 2, 1, 1, 1)}
        follow == SubSeq(build_execute_order(2, 1), 1, MaxExtra)
        cut == UNION {{SubSeq(M \o follow, 1, n) : n \in 0..(Len(M) + MaxExtra)} :
                      M \in messages}
    IN cut \cup {[b EXCEPT ![1] = first] :
                    b \in cut \ {<<>>}, first \in {0, ToByte("a"), 255}}

InitParse ==
    /\ fabric_ = DataFabric(FifoDepth)
    /\ message_buffer_ \in ParseInputs
    /\ hist = NoHistory
    /\ orders_ = EmptyMap
    /\ order_info_ = EmptyMap
    /\ book_ = EmptyBook
    /\ callback_ = "none"
    /\ error_stats_ = ErrorStats
    /\ takes = 0
    /\ crashed = FALSE
    /\ last = [NoCall EXCEPT !.ret = nullopt]

\* parser_.parse_one(message_buffer_): the buffer is passed by const
\* reference; last.ret is the optional returned.
ParseOne ==
    /\ last.type = ""
    /\ last' = [type |-> "parse_one", ret |-> parse_one(message_buffer_),
                events |-> <<>>, trades |-> <<>>]
    /\ message_buffer_' = message_buffer_
    /\ UNCHANGED <<fabric_, orders_, order_info_, book_, callback_, error_stats_,
                   takes, crashed, hist>>

SpecParse == InitParse /\ [][ParseOne]_vars

\* ------------------------------------------------------- reading the book
Sides == {"Bid", "Ask"}

\* The nodes reached from `node` by following next, as BookSide walks a FIFO.
RECURSIVE WalkFifo(_, _, _)
WalkFifo(mem, node, fuel) ==
    IF node = nullptr \/ fuel = 0 THEN <<>>
    ELSE <<node>> \o WalkFifo(mem, mem[node].next, fuel - 1)

\* The FIFO of the level at price p of a side, head to tail.
LevelNodes(book, side, p) ==
    WalkFifo(book.mem, LevelsOf(book, side)[p].head, LoopFuel)

\* Every place a node is linked at: <<side, price, position in the FIFO>>.
Slots(book) ==
    UNION { UNION { {<<side, p, i>> : i \in 1..Len(LevelNodes(book, side, p))}
                    : p \in DOMAIN LevelsOf(book, side) }
            : side \in Sides }

NodeAt(book, slot) == LevelNodes(book, slot[1], slot[2])[slot[3]]

\* The sum of the quantities of the nodes of a FIFO.
RECURSIVE SumQty(_, _)
SumQty(mem, nodes) ==
    IF nodes = <<>> THEN 0
    ELSE mem[Head(nodes)].quantity + SumQty(mem, Tail(nodes))

\* ----------------------------------------------------------------- claims

\* C1: every live order_id has exactly one FIFO node, linked in exactly one
\* BookSide at the side and price of its index record, and that node's
\* quantity equals the index record's quantity and the Order's remaining
\* quantity, after any sequence of Add, Cancel, Execute and Replace.
C1_OneNodePerLiveOrder ==
    \A id \in DOMAIN orders_ :
        orders_[id].active =>
            /\ id \in DOMAIN order_info_
            /\ LET info == order_info_[id]
                   mine == {sl \in Slots(book_) :
                               book_.mem[NodeAt(book_, sl)].order_id = id}
               IN /\ Cardinality(mine) = 1
                  /\ info.node \in book_.live
                  /\ \A sl \in mine :
                        /\ sl[1] = info.side
                        /\ sl[2] = info.price
                        /\ NodeAt(book_, sl) = info.node
                  /\ book_.mem[info.node].quantity = info.quantity
                  /\ info.quantity = orders_[id].quantity

\* Two orders rest at one price of one side and one was just executed in part.
C1_Witness ==
    /\ last.type = "E"
    /\ last.ret
    /\ \E a \in DOMAIN orders_, b \in DOMAIN orders_ :
          /\ a # b
          /\ orders_[a].side = orders_[b].side
          /\ orders_[a].price = orders_[b].price
          /\ orders_[a].quantity = 1

\* C2: for each side and each price level present, the level's aggregate
\* quantity equals the sum of the quantities of the nodes in its FIFO, after
\* any sequence of add, cancel, execute, replace and aggressive match.
C2_AggregateIsSum ==
    \A side \in Sides :
        \A p \in DOMAIN LevelsOf(book_, side) :
            LevelsOf(book_, side)[p].total_qty =
                SumQty(book_.mem, LevelNodes(book_, side, p))

C4_PositiveAggregates ==
    /\ \A side \in Sides :
          \A p \in DOMAIN LevelsOf(book_, side) :
              LevelsOf(book_, side)[p].total_qty > 0
    /\ get_best_bid(OB)[1] => get_best_bid(OB)[3] > 0
    /\ get_best_ask(OB)[1] => get_best_ask(OB)[3] > 0
    /\ \A i \in 1..Len(get_depth(OB, MaxPrice).bids) :
          get_depth(OB, MaxPrice).bids[i][2] > 0
    /\ \A i \in 1..Len(get_depth(OB, MaxPrice).asks) :
          get_depth(OB, MaxPrice).asks[i][2] > 0

\* C5: the number of index records, the number of active Orders and the number
\* of FIFO nodes on both sides are equal; every node has its index record and
\* every index record its node.
C5_CountsAgree ==
    /\ Cardinality(DOMAIN order_info_) = get_active_order_count(OB)
    /\ Cardinality(Slots(book_)) = Cardinality(DOMAIN order_info_)
    /\ \A sl \in Slots(book_) :
          LET node == NodeAt(book_, sl)
              id == book_.mem[node].order_id
          IN id \in DOMAIN order_info_ /\ order_info_[id].node = node
    /\ \A id \in DOMAIN order_info_ :
          \E sl \in Slots(book_) : NodeAt(book_, sl) = order_info_[id].node

\* One of two resting orders was just cancelled.
C5_Witness ==
    /\ last.type = "X"
    /\ last.ret
    /\ Cardinality(DOMAIN order_info_) = 1
    /\ Cardinality(Slots(book_)) = 1

\* The bytes held by a sequence of chunks.
RECURSIVE SumLen(_)
SumLen(chunks) ==
    IF chunks = <<>> THEN 0 ELSE Len(Head(chunks)) + SumLen(Tail(chunks))

\* C6: 0 <= depth_bytes <= capacity_bytes, and depth_bytes is the sum of the
\* sizes of the queued chunks, under any interleaving of write_chunk,
\* read_chunk and process().
C6_DepthWithinCapacity ==
    /\ 0 <= fabric_.current_depth_bytes_
    /\ fabric_.current_depth_bytes_ <= fabric_.max_depth_bytes_
    /\ fabric_.current_depth_bytes_ = SumLen(fabric_.fifo_)

\* Chunks were read, more were written, and the last write was turned away
\* from a FIFO that holds bytes.
C6_Witness ==
    /\ hist.returned # <<>>
    /\ last.type = "w"
    /\ ~last.ret
    /\ fabric_.current_depth_bytes_ > 0

\* All the chunks of a run have the size s.
AllOfSize(run, s) == \A i \in 1..Len(run) : run[i] = s

Min(a, b) == IF a <= b THEN a ELSE b

\* C7: write_chunk returns false iff depth_bytes + len(chunk) > capacity_bytes;
\* a rejected write leaves the queue, depth_bytes, bytes_written and the
\* high-water mark alone and adds 1 to backpressure_events and len(chunk) to
\* bytes_dropped; N writes of one size s >= 1 into an empty FIFO of capacity C,
\* with no read in between, accept exactly min(N, C div s) chunks.
C7_Backpressure ==
    /\ [][\A chunk \in Chunks :
            WriteStep(chunk) =>
                /\ (last'.ret = FALSE) <=>
                       (fabric_.current_depth_bytes_ + Len(chunk)
                            > fabric_.max_depth_bytes_)
                /\ (last'.ret = FALSE) =>
                       /\ fabric_'.fifo_ = fabric_.fifo_
                       /\ fabric_'.current_depth_bytes_ = fabric_.current_depth_bytes_
                       /\ fabric_'.max_depth_bytes_ = fabric_.max_depth_bytes_
                       /\ fabric_'.stats_ =
                              [fabric_.stats_ EXCEPT
                                  !.backpressure_events = @ + 1,
                                  !.total_bytes_dropped = @ + Len(chunk)]]_vars
    /\ [](\A s \in 1..FifoDepth :
             (hist.run_ok /\ hist.run # <<>> /\ AllOfSize(hist.run, s)) =>
                 Len(fabric_.fifo_) =
                     Min(Len(hist.run), fabric_.max_depth_bytes_ \div s))

\* Three chunks of sixteen bytes were offered to the empty FIFO: two fit.
C7_Witness ==
    /\ hist.run_ok
    /\ hist.run = <<PadLen, PadLen, PadLen>>
    /\ Len(fabric_.fifo_) = 2
    /\ ~last.ret
    /\ fabric_.stats_.backpressure_events = 1

\* C8: reads return the accepted chunks byte for byte, in the order they were
\* accepted, each once, and never a rejected chunk; a successful read takes
\* the size of the returned chunk off depth_bytes and adds it to bytes_read;
\* a read of an empty FIFO fails and changes nothing.
C8_ReadsInAcceptanceOrder ==
    /\ [](hist.accepted = hist.returned \o fabric_.fifo_)
    /\ [][ReadChunk =>
            IF fabric_.fifo_ = <<>>
            THEN last'.ret = FALSE /\ UNCHANGED <<fabric_, hist>>
            ELSE /\ last'.ret = TRUE
                 /\ Len(hist'.returned) = Len(hist.returned) + 1
                 /\ hist'.returned[Len(hist'.returned)] =
                        hist.accepted[Len(hist.returned) + 1]
                 /\ fabric_'.current_depth_bytes_ =
                        fabric_.current_depth_bytes_
                            - Len(hist'.returned[Len(hist'.returned)])
                 /\ fabric_'.stats_.total_bytes_read =
                        fabric_.stats_.total_bytes_read
                            + Len(hist'.returned[Len(hist'.returned)])]_vars

\* Of three chunks offered two were accepted, and both, different ones, have
\* been read back.
C8_Witness ==
    /\ last.type = "r"
    /\ last.ret
    /\ hist.writes = 3
    /\ Len(hist.accepted) = 2
    /\ Len(hist.returned) = 2
    /\ hist.returned[1] # hist.returned[2]

\* C9: an Add whose order_id is already live changes neither the orders, the
\* index nor the book, calls no observer, and adds 1 to invalid_operations.
C9_DuplicateAddCounted ==
    [][\A id \in OrderIds, p \in Prices, q \in Qtys, s \in SideChars,
          ts \in Timestamps :
          (id \in DOMAIN orders_ /\ MessageStep(AddMsg(id, p, q, s, ts))) =>
              /\ UNCHANGED <<orders_, order_info_, book_>>
              /\ last'.events = <<>>
              /\ error_stats_'.invalid_operations =
                     error_stats_.invalid_operations + 1]_vars

\* What a rejected operation does: failure, one more invalid operation, no
\* callback, and nothing else.
Rejected ==
    /\ last'.ret = FALSE
    /\ last'.events = <<>>
    /\ error_stats_' = [error_stats_ EXCEPT !.invalid_operations = @ + 1]
    /\ UNCHANGED <<orders_, order_info_, book_>>

\* C10: a Cancel or Execute of an id that is not live, an Execute of more than
\* the remaining quantity, and a Replace of an original that is not live each
\* fail, add exactly 1 to invalid_operations, call no observer and leave
\* orders, index and book as they were.
C10_InvalidOperationsRejected ==
    [][/\ \A id \in OrderIds, q \in Qtys :
             (id \notin DOMAIN orders_ /\ MessageStep(CancelMsg(id, q)))
                 => Rejected
       /\ \A id \in OrderIds, q \in ExecQtys :
             (/\ id \notin DOMAIN orders_ \/ orders_[id].quantity < q
              /\ MessageStep(ExecuteMsg(id, q)))
                 => Rejected
       /\ \A old \in OrderIds, new \in OrderIds, p \in Prices, q \in Qtys,
             ts \in ReplaceStamps :
             (old \notin DOMAIN orders_ /\ MessageStep(ReplaceMsg(old, new, p, q, ts)))
                 => Rejected]_vars

\* Every id is live and an Execute was just rejected: it asked for more than
\* the order had left.
C10_Witness ==
    /\ last.type = "E"
    /\ ~last.ret
    /\ DOMAIN orders_ = OrderIds
    /\ error_stats_.invalid_operations = 1

\* Every step Return makes for a call of kind `type` satisfies this: it is cheap
\* to evaluate and tells the steps of other calls apart.
Returned(type) == crashed' \/ last'.type = type

\* What the book holds, whatever the addresses of its nodes: for each side and
\* price present, the aggregate and the FIFO as <<order_id, quantity>> pairs.
BookView(book) ==
    [k \in {kk \in Sides \X Prices : kk[2] \in DOMAIN LevelsOf(book, kk[1])} |->
        [total_qty |-> LevelsOf(book, k[1])[k[2]].total_qty,
         fifo |-> [i \in 1..Len(LevelNodes(book, k[1], k[2])) |->
                      <<book.mem[LevelNodes(book, k[1], k[2])[i]].order_id,
                        book.mem[LevelNodes(book, k[1], k[2])[i]].quantity>>]]]

\* A FIFO without the entries of order id.
WithoutOrder(fifo, id) ==
    LET Other(e) == e[1] # id IN SelectSeq(fifo, Other)

\* A view after order id left the level k: the level loses qty, or goes with
\* its last order.
ViewWithout(view, k, id, qty) ==
    IF WithoutOrder(view[k].fifo, id) = <<>> THEN MapErase(view, k)
    ELSE [view EXCEPT ![k].total_qty = @ - qty,
                      ![k].fifo = WithoutOrder(@, id)]

\* C11: an accepted Execute(id, q) with q <= remaining takes exactly q off the
\* order's remaining quantity, its node's quantity and its level's aggregate
\* and changes no other order or level; a node with quantity left keeps its
\* place in the FIFO; a node that reaches zero is unlinked, its level erased
\* if it became empty, and the index and Order records erased, so that
\* find_order(id) returns none.
C11_ExecuteTakesExactly ==
    [][\A id \in OrderIds, q \in ExecQtys :
          (/\ id \in DOMAIN orders_
           /\ q <= orders_[id].quantity
           /\ Returned("E")
           /\ MessageStep(ExecuteMsg(id, q))) =>
              LET o == orders_[id]
                  k == <<BookSideOf(o.side), o.price>>
                  view == BookView(book_)
              IN /\ last'.ret = TRUE
                 /\ IF o.quantity - q > 0
                    THEN /\ orders_' = [orders_ EXCEPT ![id].quantity = @ - q]
                         /\ order_info_' = [order_info_ EXCEPT ![id].quantity = @ - q]
                         /\ BookView(book_') =
                               [view EXCEPT
                                  ![k].total_qty = @ - q,
                                  ![k].fifo =
                                      [i \in 1..Len(@) |->
                                          IF @[i][1] = id THEN <<id, @[i][2] - q>>
                                          ELSE @[i]]]
                    ELSE /\ orders_' = MapErase(orders_, id)
                         /\ order_info_' = MapErase(order_info_, id)
                         /\ find_order(OB', id) = nullptr
                         /\ BookView(book_') = ViewWithout(view, k, id, q)]_vars

\* An order was just executed in full, and its level is still there with the
\* order that rested behind it.
C11_Witness ==
    /\ last.type = "E"
    /\ last.ret
    /\ Len(last.events) = 1
    /\ last.events[1].order.quantity = 0
    /\ last.events[1].order.price
           \in DOMAIN LevelsOf(book_, BookSideOf(last.events[1].order.side))

\* A view after order id joined level k with quantity qty, at the tail.
ViewWith(view, k, id, qty) ==
    IF k \in DOMAIN view
    THEN [view EXCEPT ![k].total_qty = @ + qty, ![k].fifo = Append(@, <<id, qty>>)]
    ELSE MapPut(view, k, [total_qty |-> qty, fifo |-> << <<id, qty>> >>])

C13_ReplaceCollision ==
    [][\A old \in OrderIds, new \in OrderIds :
          (/\ old \in DOMAIN orders_
           /\ new \in DOMAIN orders_
           /\ new # old
           /\ Returned("U")
           /\ \E p \in Prices, q \in Qtys, ts \in ReplaceStamps :
                 MessageStep(ReplaceMsg(old, new, p, q, ts))) =>
              LET o == orders_[old]
              IN /\ last'.ret = FALSE
                 /\ last'.events = <<>>
                 /\ orders_' = MapErase(orders_, old)
                 /\ orders_'[new] = orders_[new]
                 /\ find_order(OB', new) = orders_[new]
                 /\ order_info_' = MapErase(order_info_, old)
                 /\ BookView(book_') =
                       ViewWithout(BookView(book_), <<BookSideOf(o.side), o.price>>,
                                   old, o.quantity)]_vars

\* A Replace just failed without being counted as invalid: its new id was
\* taken, the original is gone and the order that had the id rests alone.
C13_Witness ==
    /\ last.type = "U"
    /\ ~last.ret
    /\ error_stats_.invalid_operations = 0
    /\ Cardinality(DOMAIN orders_) = MaxOrderId - 1
    /\ Cardinality(Slots(book_)) = MaxOrderId - 1

StreamDone ==
    /\ hist.stream # <<>>
    /\ hist.sent = Len(hist.stream)
    /\ hist.processes > 0
    /\ fabric_.fifo_ = <<>>

\* What a fresh engine behind a fabric of `depth` bytes ends in when the stream
\* is written as one chunk and process() is called.
OneChunk(stream, depth) ==
    process([EmptyOrderBook EXCEPT !.callback_ = callback_],
            write_chunk(DataFabric(depth), stream).fabric)

\* What a fresh engine ends in when the messages of the stream are dispatched
\* one after the other.
InOrder(stream) ==
    ParseLoop([ob |-> [EmptyOrderBook EXCEPT !.callback_ = callback_,
                                             !.message_buffer_ = stream],
               events |-> <<>>, dispatched |-> <<>>, iterations |-> 0])

\* The engine holds the orders, index and book of outcome r and its observer
\* has seen the events of r.
SameAs(r) ==
    /\ orders_ = r.ob.orders_
    /\ order_info_ = r.ob.order_info_
    /\ book_ = Scrub(r.ob).book_
    /\ hist.events = r.events

\* C15 as stated: whatever the chunks a stream of messages is cut into, writing
\* them in order and calling process() ends in the orders, index, book and
\* observer events that writing the stream as one chunk ends in.
C15_ChunkIndependence ==
    StreamDone => \E r \in OneChunk(hist.stream, fabric_.max_depth_bytes_) : SameAs(r)

\* C15, for chunks that write_chunk accepts: whatever the chunks a stream of
\* messages is cut into, if every chunk was accepted and no process() call
\* found the reassembly buffer overflowing, the engine ends in the orders,
\* index, book and observer events of the stream's messages dispatched in
\* order, which is what any other such cutting ends in.
C15_ChunkIndependenceWhenAccepted ==
    (/\ StreamDone
     /\ fabric_.stats_.backpressure_events = 0
     /\ error_stats_.buffer_overflows = 0) =>
        \E r \in InOrder(hist.stream) : SameAs(r)

\* A stream was cut inside its first and inside its second message, process()
\* ran with a partial frame waiting, and both messages have taken effect.
C15_Witness ==
    /\ StreamDone
    /\ fabric_.stats_.backpressure_events = 0
    /\ Len(hist.accepted) = 3
    /\ Len(hist.accepted[1]) < ADD_MSG_SIZE
    /\ Len(hist.accepted[1]) + Len(hist.accepted[2]) > ADD_MSG_SIZE
    /\ hist.processes = 2
    /\ error_stats_.incomplete_messages > 0
    /\ Len(hist.dispatched) = 2
    /\ message_buffer_ = <<>>

\* The bytes of a sequence of chunks, in order.
RECURSIVE Flatten(_)
Flatten(chunks) ==
    IF chunks = <<>> THEN <<>> ELSE Head(chunks) \o ByValue(Flatten, Tail(chunks))

\* The messages a byte sequence contains, in byte order: what parse_one
\* returns at each message start, bytes that start no message being passed
\* over and an unfinished last message left out.
RECURSIVE MessagesIn(_)
MessagesIn(bytes) ==
    LET skipped == UnknownRun(bytes)
        result_opt == parse_one(SubSeq(bytes, skipped + 1, Len(bytes)))
    IN IF ~result_opt.has_value THEN <<>>
       ELSE <<result_opt.value>>
            \o ByValue(MessagesIn,
                       SubSeq(bytes, skipped + result_opt.value.bytes_consumed + 1,
                              Len(bytes)))

\* The observer call an accepted message makes: its kind and the id of the
\* order shown.
CallOf(msg) ==
    <<msg.type, IF msg.type = "U" THEN msg.new_order_id ELSE msg.order_id>>

\* The messages dispatched so far are those of the accepted chunks, in byte
\* order, and the observer calls are those of the dispatches that succeeded,
\* in the same order.
DispatchedInByteOrder ==
    LET Accepted(d) == d.ret
        done == SelectSeq(hist.dispatched, Accepted)
    IN /\ [i \in 1..Len(hist.dispatched) |-> hist.dispatched[i].msg]
           = MessagesIn(Flatten(hist.accepted))
       /\ [i \in 1..Len(hist.events) |->
              <<hist.events[i].type, hist.events[i].order.order_id>>]
           = [i \in 1..Len(done) |-> CallOf(done[i].msg)]

\* C16 as stated: once process() has drained the fabric, the messages it has
\* dispatched are exactly the messages in the concatenation of the accepted
\* chunks, in byte order, none skipped, duplicated or reordered, rejected
\* chunks adding nothing, and the observer events occur in that order.
C16_DispatchInByteOrder ==
    (hist.processes > 0 /\ fabric_.fifo_ = <<>>) => DispatchedInByteOrder

\* C16, short of an overflow: the same, as long as no process() call found the
\* reassembly buffer above MAX_BUFFER_SIZE and discarded it.
C16_DispatchInByteOrderUnlessOverflow ==
    (/\ hist.processes > 0
     /\ fabric_.fifo_ = <<>>
     /\ error_stats_.buffer_overflows = 0) => DispatchedInByteOrder

\* A message cut over two accepted chunks was dispatched and seen by the
\* observer, and the chunk that was rejected after them gave nothing.
C16_Witness ==
    /\ hist.processes > 0
    /\ fabric_.fifo_ = <<>>
    /\ fabric_.stats_.backpressure_events = 1
    /\ Len(hist.accepted) = 2
    /\ Len(hist.accepted[1]) < ADD_MSG_SIZE
    /\ Len(hist.dispatched) = 1
    /\ Len(hist.events) = 1
    /\ message_buffer_ # <<>>

\* C17 as stated: a stream with k bytes that start no message inserted
\* between two of its messages, once written and processed, leaves
\* unknown_message_types k higher and the same orders, index, book and
\* observer events as the stream without those bytes, written and processed.
C17_Resync ==
    (StreamDone /\ hist.inserted > 0)
        => \E r \in OneChunk(hist.clean, fabric_.max_depth_bytes_) :
              /\ SameAs(r)
              /\ error_stats_.unknown_message_types
                   = r.ob.error_stats_.unknown_message_types + hist.inserted

\* C17 for streams that get through: the same, when write_chunk accepted
\* every chunk and no process() call found the reassembly buffer above
\* MAX_BUFFER_SIZE.
C17_ResyncWhenAccepted ==
    (/\ StreamDone
     /\ hist.inserted > 0
     /\ fabric_.stats_.backpressure_events = 0
     /\ error_stats_.buffer_overflows = 0)
        => \E r \in InOrder(hist.clean) :
              /\ SameAs(r)
              /\ error_stats_.unknown_message_types
                   = r.ob.error_stats_.unknown_message_types + hist.inserted

\* Three inserted bytes were skipped, the chunks having been cut inside them,
\* and the Execute behind them was applied.
C17_Witness ==
    /\ StreamDone
    /\ hist.inserted = 3
    /\ \E i \in 1..Len(hist.accepted) :
          Len(Flatten(SubSeq(hist.accepted, 1, i))) = ADD_MSG_SIZE + 1
    /\ fabric_.stats_.backpressure_events = 0
    /\ error_stats_.unknown_message_types = 3
    /\ Len(hist.events) = 2
    /\ hist.events[2].type = "E"

\* C18: a process() call made when no chunk was accepted since the previous
\* process() returned changes none of orders, index, book, reassembly buffer,
\* error_stats and the fabric with its statistics, and calls no observer, a
\* partial frame in the reassembly buffer included.
C18_ProcessIdempotent ==
    [][(/\ hist'.processes = hist.processes + 1
        /\ hist.processes > 0
        /\ fabric_.fifo_ = <<>>)
          => /\ UNCHANGED <<orders_, order_info_, book_, message_buffer_,
                            error_stats_, fabric_>>
             /\ last'.events = <<>>]_vars

\* C19: whenever process() has returned, the reassembly buffer holds at most
\* MAX_BUFFER_SIZE (512) bytes, whatever was written and in which chunks.
C19_BufferBounded ==
    last.type = "p" => Len(message_buffer_) <= MAX_BUFFER_SIZE

\* More than MAX_BUFFER_SIZE bytes had been accepted when process() was
\* called: it counted an overflow and returned with an empty buffer.
C19_Witness ==
    /\ last.type = "p"
    /\ Len(Flatten(hist.returned)) > MAX_BUFFER_SIZE
    /\ error_stats_.buffer_overflows = 1
    /\ message_buffer_ = <<>>

\* The resting orders of a side in price-time priority, as <<order_id,
\* quantity, price>>: the highest bid or the lowest ask first, and the orders of
\* one price from the head of its FIFO to the tail.
RECURSIVE PriorityFrom(_, _, _)
PriorityFrom(view, side, prices) ==
    IF prices = {} THEN <<>>
    ELSE LET p == IF side = "Bid"
                  THEN CHOOSE x \in prices : \A y \in prices : y <= x
                  ELSE CHOOSE x \in prices : \A y \in prices : x <= y
             fifo == view[<<side, p>>].fifo
         IN [i \in 1..Len(fifo) |-> <<fifo[i][1], fifo[i][2], p>>]
            \o PriorityFrom(view, side, prices \ {p})

Priority(view, side) ==
    PriorityFrom(view, side, {k[2] : k \in {kk \in DOMAIN view : kk[1] = side}})

\* C20: the trades of an aggressive match name the resting orders of the
\* opposite side in price-time priority (best price first, head of the FIFO
\* first within a price) without passing over any, and every order but the
\* last one traded with was filled completely.
C20_PriceTimePriority ==
    [][\A taking_side \in Sides, q \in 1..MaxQty :
          (takes' = takes + 1 /\ ~crashed' /\ AggressiveStep(taking_side, q))
            => LET ahead == Priority(BookView(book_), OppositeSide(taking_side))
                   trades == last'.trades
               IN /\ Len(trades) <= Len(ahead)
                  /\ \A i \in 1..Len(trades) :
                        /\ trades[i][1] = ahead[i][1]
                        /\ trades[i][3] = ahead[i][3]
                        /\ i < Len(trades) => trades[i][2] = ahead[i][2]]_vars

\* The sum of component `j` of the first `n` tuples of a sequence.
RECURSIVE SumOf(_, _, _)
SumOf(seq, j, n) == IF n = 0 THEN 0 ELSE seq[n][j] + SumOf(seq, j, n - 1)

\* The aggregate quantity of a side: the sum of its levels' total_qty.
RECURSIVE AggregateFrom(_, _, _)
AggregateFrom(view, side, prices) ==
    IF prices = {} THEN 0
    ELSE LET p == CHOOSE x \in prices : TRUE
         IN view[<<side, p>>].total_qty + AggregateFrom(view, side, prices \ {p})

Aggregate(view, side) ==
    AggregateFrom(view, side, {k[2] : k \in {kk \in DOMAIN view : kk[1] = side}})

\* C21: an aggressive match of quantity Q returns filled = min(Q, quantity
\* resting on the opposite side before the call); filled is the sum of the
\* trade quantities and the decrease of the opposite side's aggregate; each
\* trade carries the maker's id, min(node quantity, remaining) and the price
\* of the maker's level; the taking side's own book is unchanged.
C21_MatchFillsMin ==
    [][\A taking_side \in Sides, q \in 1..MaxQty :
          (takes' = takes + 1 /\ ~crashed' /\ AggressiveStep(taking_side, q))
            => LET opposite == OppositeSide(taking_side)
                   before == BookView(book_)
                   after == BookView(book_')
                   resting == Priority(before, opposite)
                   trades == last'.trades
                   filled == last'.ret
               IN /\ filled = Min(q, SumOf(resting, 2, Len(resting)))
                  /\ filled = SumOf(trades, 2, Len(trades))
                  /\ filled = Aggregate(before, opposite) - Aggregate(after, opposite)
                  /\ Len(trades) <= Len(resting)
                  /\ \A i \in 1..Len(trades) :
                        trades[i] = <<resting[i][1],
                                      Min(resting[i][2], q - SumOf(trades, 2, i - 1)),
                                      resting[i][3]>>
                  /\ LevelsOf(book_', taking_side) = LevelsOf(book_, taking_side)
                  /\ \A k \in DOMAIN before :
                        k[1] = taking_side => k \in DOMAIN after /\ after[k] = before[k]]_vars

\* C22: after any sequence of operations, aggressive matches included, every
\* index record that holds a node reference refers to a node that is
\* allocated and linked in the book at the record's side and price, with the
\* record's quantity.
C22_IndexRefersToLinkedNode ==
    \A id \in DOMAIN order_info_ :
        LET info == order_info_[id]
        IN info.node # nullptr =>
              /\ info.node \in book_.live
              /\ \E sl \in Slots(book_) :
                    /\ sl[1] = info.side
                    /\ sl[2] = info.price
                    /\ NodeAt(book_, sl) = info.node
              /\ book_.mem[info.node].quantity = info.quantity

\* Cancel(id) in the state `after` leads back to orders, index and book as the
\* variables hold them: levels, aggregates and FIFO order at every price.
CancelRestores(after, id) ==
    \A o \in handle_message(after, CancelMsg(id, 0)) :
        /\ o.ob.orders_ = orders_
        /\ o.ob.order_info_ = order_info_
        /\ BookView(o.ob.book_) = BookView(book_)

\* C23 as stated: from any reachable state, Add(id, ...) followed immediately
\* by Cancel(id) returns orders, order index and both book sides to the state
\* before the Add.
C23_AddCancelRoundTrip ==
    [][\A id \in OrderIds, p \in Prices, q \in Qtys, s \in SideChars :
          (Returned("A") /\ ~crashed' /\ MessageStep(AddMsg(id, p, q, s, 1)))
            => CancelRestores(OB', id)]_vars

\* C23 for an id not in use: the same, when no order with that id is present
\* before the Add.
C23_AddCancelRoundTripFreshId ==
    [][\A id \in OrderIds, p \in Prices, q \in Qtys, s \in SideChars :
          (/\ id \notin DOMAIN orders_
           /\ Returned("A")
           /\ ~crashed'
           /\ MessageStep(AddMsg(id, p, q, s, 1)))
            => /\ last'.ret = TRUE
               /\ CancelRestores(OB', id)]_vars

\* An Add was just accepted behind another order at the same price, and a
\* Cancel of it leads to a state without the order.
C23_Witness ==
    /\ last.type = "A"
    /\ last.ret = TRUE
    /\ \E id \in DOMAIN order_info_ :
          /\ book_.mem[order_info_[id].node].prev # nullptr
          /\ book_.mem[order_info_[id].node].quantity > 0
          /\ \A o \in handle_message(OB, CancelMsg(id, 0)) :
                /\ id \notin DOMAIN o.ob.orders_
                /\ Len(BookView(o.ob.book_)[<<order_info_[id].side,
                                              order_info_[id].price>>].fifo) = 1

\* The order ids of the FIFO at key k = <<side, price>>, head to tail; empty
\* when the level is absent.
FifoIds(view, k) ==
    IF k \in DOMAIN view
    THEN [i \in 1..Len(view[k].fifo) |-> view[k].fifo[i][1]]
    ELSE <<>>

\* `rest` is `fifo` without some of its orders, the others in the same order.
KeepsOrder(fifo, rest) ==
    LET Stays(id) == \E i \in 1..Len(rest) : rest[i] = id
    IN rest = SelectSeq(fifo, Stays)

C25_ExecuteConsumesHead ==
    [][\A id \in OrderIds, q \in ExecQtys :
          (/\ Returned("E")
           /\ ~crashed'
           /\ MessageStep(ExecuteMsg(id, q))
           /\ last'.ret = TRUE)
            => /\ id \in DOMAIN orders_
               /\ LET o == orders_[id]
                      fifo == FifoIds(BookView(book_), <<BookSideOf(o.side), o.price>>)
                  IN fifo # <<>> /\ fifo[1] = id]_vars

\* What a side's best quote and depth(k) must be: the quote is absent exactly
\* when the side has no level, else it is the maximum bid or minimum ask price
\* with that level's aggregate; depth has at most k entries, strictly
\* descending for bids and ascending for asks, the first being the quote.
QuoteAndDepthAgree(levels, side, best, entries, k) ==
    /\ best[1] = (DOMAIN levels # {})
    /\ best[1] =>
          /\ best[2] \in DOMAIN levels
          /\ \A p \in DOMAIN levels : IF side = "Bid" THEN p <= best[2] ELSE best[2] <= p
          /\ best[3] = levels[best[2]].total_qty
    /\ Len(entries) <= k
    /\ \A i \in 1..(Len(entries) - 1) :
          IF side = "Bid" THEN entries[i][1] > entries[i + 1][1]
          ELSE entries[i][1] < entries[i + 1][1]
    /\ entries # <<>> => best[1] /\ entries[1] = <<best[2], best[3]>>

\* C26: best_bid() is the maximum bid price with its aggregate, best_ask()
\* the minimum ask price with its aggregate, each absent iff its side has no
\* level; depth(k) has at most k entries per side, bids strictly descending,
\* asks strictly ascending, and its first entry on each side is the best
\* price and aggregate.
C26_BestAndDepth ==
    \A k \in 0..(MaxPrice + 1) :
        /\ QuoteAndDepthAgree(book_.bids_, "Bid", get_best_bid(OB),
                              get_depth(OB, k).bids, k)
        /\ QuoteAndDepthAgree(book_.asks_, "Ask", get_best_ask(OB),
                              get_depth(OB, k).asks, k)

\* C27: through write_chunk, read_chunk and reset_stats the high-water mark
\* (stats_.max_depth_reached) is never below the current depth and never
\* decreases, as the maximum depth ever reached must.
C27_HighWaterMark ==
    [][/\ fabric_'.stats_.max_depth_reached >= fabric_'.current_depth_bytes_
       /\ fabric_'.stats_.max_depth_reached >= fabric_.stats_.max_depth_reached]_vars

\* C28: a process() call that finds more than MAX_BUFFER_SIZE bytes in the
\* reassembly buffer after draining the fabric clears the buffer, adds exactly
\* 1 to buffer_overflows, dispatches nothing, calls no observer and changes no
\* order or book state, complete messages at the front of the buffer included;
\* with exactly MAX_BUFFER_SIZE bytes there is no overflow and the messages of
\* the buffer are dispatched.
C28_OverflowGuard ==
    [][hist'.processes = hist.processes + 1 =>
          LET found == message_buffer_ \o Flatten(fabric_.fifo_)
              new == SubSeq(hist'.dispatched, Len(hist.dispatched) + 1,
                            Len(hist'.dispatched))
          IN IF Len(found) > MAX_BUFFER_SIZE
             THEN /\ message_buffer_' = <<>>
                  /\ error_stats_' = [error_stats_ EXCEPT !.buffer_overflows = @ + 1]
                  /\ new = <<>>
                  /\ last'.events = <<>>
                  /\ hist'.events = hist.events
                  /\ UNCHANGED <<orders_, order_info_, book_>>
             ELSE /\ error_stats_'.buffer_overflows = error_stats_.buffer_overflows
                  /\ [i \in 1..Len(new) |-> new[i].msg] = MessagesIn(found)]_vars

\* process() found one byte more than MAX_BUFFER_SIZE, a complete Add at the
\* front: it counted the overflow and dispatched nothing.
C28_Witness ==
    /\ last.type = "p"
    /\ Len(Flatten(hist.returned)) = MAX_BUFFER_SIZE + 1
    /\ parse_one(Flatten(hist.returned)).has_value
    /\ error_stats_.buffer_overflows = 1
    /\ message_buffer_ = <<>>
    /\ hist.dispatched = <<>>
    /\ orders_ = EmptyMap

\* What a process() step found in the reassembly buffer after draining the
\* fabric, and the messages it handed to handle_message.
Found == message_buffer_ \o Flatten(fabric_.fifo_)

NewlyDispatched ==
    LET new == SubSeq(hist'.dispatched, Len(hist.dispatched) + 1, Len(hist'.dispatched))
    IN [i \in 1..Len(new) |-> new[i].msg]

\* A process() step that ends with bytes in the buffer: they are a proper
\* prefix of a message of recognized type, the last bytes found, unchanged;
\* the call counted one incomplete message; and it dispatched the messages
\* before the prefix and nothing of the prefix, so that a call that found the
\* prefix alone changed no order or book state and called no observer.
PartialFrameKept ==
    LET kept == message_buffer_'
        before == SubSeq(Found, 1, Len(Found) - Len(kept))
    IN /\ Len(kept) < get_itch_message_length(ToChar(kept[1]))
       /\ kept = SubSeq(Found, Len(Found) - Len(kept) + 1, Len(Found))
       /\ error_stats_'.incomplete_messages = error_stats_.incomplete_messages + 1
       /\ NewlyDispatched = MessagesIn(before)
       /\ Len(last'.events) <= Len(NewlyDispatched)
       /\ before = <<>> =>
             /\ UNCHANGED <<orders_, order_info_, book_>>
             /\ hist'.events = hist.events

\* A process() step that starts with a prefix in the buffer and finds the
\* rest of the message in the fabric dispatches the message once, first, with
\* the fields parse_one decodes from the message in one piece.
PartialFrameCompleted ==
    LET whole == SubSeq(Found, 1, get_itch_message_length(ToChar(message_buffer_[1])))
    IN /\ NewlyDispatched # <<>>
       /\ NewlyDispatched = MessagesIn(Found)
       /\ NewlyDispatched[1] = parse_one(whole).value
       /\ message_buffer_' # Found

\* C29 as stated: a process() call that ends with a proper prefix of a message
\* in the buffer has kept the prefix byte for byte, counted one incomplete
\* message and let the message cause nothing; and the process() call after the
\* remaining bytes were accepted dispatches the message exactly once, with
\* the fields it has when it arrives in one chunk.
C29_PartialFrame ==
    [][hist'.processes = hist.processes + 1 =>
          /\ message_buffer_' # <<>> => PartialFrameKept
          /\ (/\ message_buffer_ # <<>>
              /\ Len(Found) >= get_itch_message_length(ToChar(message_buffer_[1])))
                => PartialFrameCompleted]_vars

\* C29, short of an overflow: the same, the completed message being dispatched
\* when the call finds no more than MAX_BUFFER_SIZE bytes in the buffer.
C29_PartialFrameUnlessOverflow ==
    [][hist'.processes = hist.processes + 1 =>
          /\ message_buffer_' # <<>> => PartialFrameKept
          /\ (/\ message_buffer_ # <<>>
              /\ Len(Found) >= get_itch_message_length(ToChar(message_buffer_[1]))
              /\ Len(Found) <= MAX_BUFFER_SIZE)
                => PartialFrameCompleted]_vars

\* An Add arrived in two chunks with a process() call after each: the first
\* call counted the incomplete message and the second added the order.
C29_Witness ==
    /\ last.type = "p"
    /\ hist.processes = 2
    /\ Len(hist.returned) = 2
    /\ Len(hist.returned[1]) < ADD_MSG_SIZE
    /\ error_stats_.incomplete_messages = 1
    /\ error_stats_.buffer_overflows = 0
    /\ Len(hist.dispatched) = 1
    /\ hist.dispatched[1].msg = parse_one(Flatten(hist.returned)).value
    /\ 1 \in DOMAIN orders_
    /\ message_buffer_ = <<>>

\* The order rests in the book: some FIFO holds a node with its id.
InBook(book, id) ==
    \E k \in DOMAIN BookView(book) :
        \E i \in 1..Len(BookView(book)[k].fifo) : BookView(book)[k].fifo[i][1] = id

\* The 'E' callback of an accepted Execute(id, q): the Order shown has the
\* quantity left after q, and is inactive when that is 0; it is the Order
\* record stored during the call, and the book is as the call leaves it.
ExecuteCallback(ev, id, q) ==
    /\ ev.type = "E"
    /\ ev.order = [orders_[id] EXCEPT !.quantity = @ - q,
                                      !.active = (orders_[id].quantity - q # 0)]
    /\ id \in DOMAIN ev.at.orders_
    /\ ev.at.orders_[id] = ev.order
    /\ BookView(ev.at.book_) = BookView(book_')
    /\ (id \in DOMAIN orders_') = (ev.order.quantity # 0)

\* The callbacks of accepted Cancels and Adds are made as C30 says. The 'X'
\* callback of an accepted Cancel(id): the order is out of the book and the
\* index, its Order record is still stored, inactive, and is the Order shown;
\* find_order(id) finds nothing; the record is erased after. The 'A' callback
\* of an accepted Add: the Order shown is the one added, and it is stored,
\* indexed and resting in the book during the call.
CancelAndAddCallbacks ==
    /\ \A id \in OrderIds, q \in Qtys :
          (/\ Returned("X") /\ ~crashed' /\ last'.ret
           /\ MessageStep(CancelMsg(id, q)))
            => /\ Len(last'.events) = 1
               /\ LET ev == last'.events[1]
                  IN  /\ ev.type = "X"
                      /\ ev.order = [orders_[id] EXCEPT !.active = FALSE]
                      /\ ~InBook(ev.at.book_, id)
                      /\ id \notin DOMAIN ev.at.order_info_
                      /\ id \in DOMAIN ev.at.orders_
                      /\ ev.at.orders_[id] = ev.order
                      /\ find_order(ev.at, id) = nullptr
                      /\ id \notin DOMAIN orders_'
    /\ \A id \in OrderIds, p \in Prices, q \in Qtys, s \in SideChars, ts \in Timestamps :
          (/\ Returned("A") /\ ~crashed' /\ last'.ret
           /\ MessageStep(AddMsg(id, p, q, s, ts)))
            => /\ Len(last'.events) = 1
               /\ LET ev == last'.events[1]
                      order == Order(id, p, q, s, ts)
                  IN  /\ ev.type = "A"
                      /\ ev.order = order
                      /\ order.order_id \in DOMAIN ev.at.orders_
                      /\ order.order_id \in DOMAIN ev.at.order_info_
                      /\ InBook(ev.at.book_, order.order_id)
                      /\ BookView(ev.at.book_) = BookView(book_')

\* C30 as stated: the 'X' callback of a Cancel runs with the order out of the
\* book and the index and inactive, its Order record not yet erased, so that
\* find_order(id) finds nothing; the 'E' callback of an Execute runs after the
\* decrement and before any erasure, index record and Order record both still
\* there, and shows the remaining quantity (0 and inactive on a full fill);
\* the 'A' callback runs with the order in the book.
C30_ObserverTiming ==
    [][/\ CancelAndAddCallbacks
       /\ \A id \in OrderIds, q \in ExecQtys :
             (/\ Returned("E") /\ ~crashed' /\ last'.ret
              /\ MessageStep(ExecuteMsg(id, q)))
               => /\ Len(last'.events) = 1
                  /\ ExecuteCallback(last'.events[1], id, q)
                  /\ (id \in DOMAIN last'.events[1].at.order_info_)
                        = (id \in DOMAIN order_info_)]_vars

\* C30, the index record of a filled order aside: the same, the 'E' callback
\* of an Execute running before the Order record is erased; on a full fill the
\* order has by then left the book and the index, as in a Cancel.
C30_ObserverTimingOrderRecord ==
    [][/\ CancelAndAddCallbacks
       /\ \A id \in OrderIds, q \in ExecQtys :
             (/\ Returned("E") /\ ~crashed' /\ last'.ret
              /\ MessageStep(ExecuteMsg(id, q)))
               => LET ev == last'.events[1]
                  IN /\ Len(last'.events) = 1
                     /\ ExecuteCallback(ev, id, q)
                     /\ IF ev.order.quantity = 0
                        THEN /\ id \notin DOMAIN ev.at.order_info_
                             /\ ~InBook(ev.at.book_, id)
                        ELSE (id \in DOMAIN ev.at.order_info_)
                                = (id \in DOMAIN order_info_)]_vars

\* An Execute has just filled an order: the observer was shown quantity 0 and
\* inactive, with the Order record still stored and the index record gone.
C30_Witness ==
    /\ last.type = "E"
    /\ last.ret
    /\ Len(last.events) = 1
    /\ last.events[1].order.quantity = 0
    /\ ~last.events[1].order.active
    /\ last.events[1].order.order_id \in DOMAIN last.events[1].at.orders_
    /\ last.events[1].order.order_id \notin DOMAIN last.events[1].at.order_info_
    /\ last.events[1].order.order_id \notin DOMAIN orders_

\* C31: an accepted Add changes only the FIFO and the aggregate of its own
\* side at its own price, and adds the order and index records; it changes no
\* other order and reports no trade, whether or not its price crosses or
\* locks the opposite best. The order record and the index record of its id
\* are new and the others are as they were; the level at its side and price
\* has the order behind the FIFO it had and its quantity on the aggregate;
\* every other level is as it was.
C31_AddNeverMatches ==
    [][\A id \in OrderIds, p \in Prices, q \in Qtys, s \in SideChars, ts \in Timestamps :
          (/\ Returned("A") /\ ~crashed' /\ last'.ret
           /\ MessageStep(AddMsg(id, p, q, s, ts)))
            => LET order == Order(id, p, q, s, ts)
                   k == <<BookSideOf(order.side), order.price>>
                   before == BookView(book_)
                   after == BookView(book_')
                   had == IF k \in DOMAIN before THEN before[k]
                          ELSE [total_qty |-> 0, fifo |-> <<>>]
               IN /\ last'.trades = <<>>
                  /\ orders_' = MapPut(orders_, id, order)
                  /\ DOMAIN order_info_' = DOMAIN order_info_ \cup {id}
                  /\ \A i \in DOMAIN order_info_ \ {id} : order_info_'[i] = order_info_[i]
                  /\ DOMAIN after = DOMAIN before \cup {k}
                  /\ \A kk \in DOMAIN before \ {k} : after[kk] = before[kk]
                  /\ after[k].fifo = Append(had.fifo, <<id, order.quantity>>)
                  /\ after[k].total_qty = had.total_qty + order.quantity]_vars

\* An Add has just been accepted and the book is crossed: the best bid is
\* above the best ask, both with shares, and nothing was traded.
C31_Witness ==
    /\ last.type = "A"
    /\ last.ret
    /\ last.trades = <<>>
    /\ get_best_bid(OB)[1]
    /\ get_best_ask(OB)[1]
    /\ get_best_bid(OB)[2] > get_best_ask(OB)[2]
    /\ get_best_bid(OB)[3] > 0
    /\ get_best_ask(OB)[3] > 0

\* C32: when process() has returned, the reassembly buffer cannot yield a
\* message: it is empty, or it starts with the type byte of a message and is
\* shorter than that message. It does not begin with an unrecognized byte and
\* holds no complete message, so parse_one finds nothing in it.
C32_BufferCannotYield ==
    hist.processes > 0 =>
        /\ \/ message_buffer_ = <<>>
           \/ /\ ToChar(message_buffer_[1]) \in {"A", "X", "E", "U"}
              /\ Len(message_buffer_)
                   < get_itch_message_length(ToChar(message_buffer_[1]))
        /\ ~parse_one(message_buffer_).has_value

\* process() dispatched a message, skipped the bytes after it that start no
\* message and returned with the first bytes of an Execute in the buffer.
C32_Witness ==
    /\ last.type = "p"
    /\ Len(hist.dispatched) = 1
    /\ error_stats_.unknown_message_types = hist.inserted
    /\ hist.inserted > 0
    /\ message_buffer_ # <<>>
    /\ ToChar(message_buffer_[1]) = "E"
    /\ Len(message_buffer_) < EXECUTE_MSG_SIZE

\* The bytes of the messages in a sequence of parse results.
RECURSIVE BytesOf(_)
BytesOf(msgs) ==
    IF msgs = <<>> THEN 0 ELSE Head(msgs).bytes_consumed + BytesOf(Tail(msgs))

\* The iterations of the parse loop in a process() step that found no
\* overflow: one for each message dispatched, which removed the whole message,
\* one for each unknown byte, which removed that byte, and the one that
\* stopped the loop.
IterationsRemoveBytes ==
    LET skipped == error_stats_'.unknown_message_types
                     - error_stats_.unknown_message_types
    IN /\ hist'.iterations = Len(NewlyDispatched) + skipped + 1
       /\ Len(Found) - Len(message_buffer_') = BytesOf(NewlyDispatched) + skipped
       /\ \A i \in 1..Len(NewlyDispatched) : NewlyDispatched[i].bytes_consumed >= 1

\* C33 as stated: every iteration of the parse loop stops the loop or removes
\* at least one byte from the buffer, a whole message or one unknown byte, so
\* that a process() call makes at most as many iterations as there are bytes
\* in the buffer after the drain.
C33_ProcessTerminates ==
    [][hist'.processes = hist.processes + 1 =>
          /\ Len(Found) <= MAX_BUFFER_SIZE => IterationsRemoveBytes
          /\ hist'.iterations <= Len(Found)]_vars

\* C33, the stopping iteration counted: the same, a process() call making at
\* most one iteration more than there are bytes in the buffer after the drain.
C33_ProcessTerminatesOneMore ==
    [][hist'.processes = hist.processes + 1 =>
          /\ Len(Found) <= MAX_BUFFER_SIZE => IterationsRemoveBytes
          /\ hist'.iterations <= Len(Found) + 1]_vars

\* process() found two bytes that start no message and nothing else: it made
\* three iterations, two that erased a byte and the one that stopped.
C33_Witness ==
    /\ last.type = "p"
    /\ hist.processes = 2
    /\ Len(hist.returned) = 2
    /\ Len(hist.returned[2]) = 2
    /\ error_stats_.unknown_message_types = 2
    /\ hist.iterations = 3
    /\ message_buffer_ = <<>>

\* The engine states reached from those of s.obs by dispatching the messages
\* s.msgs one after the other.
RECURSIVE DispatchAll(_)
DispatchAll(s) ==
    IF s.msgs = <<>> THEN s.obs
    ELSE ByValue(DispatchAll,
                 [obs |-> UNION {{o.ob : o \in handle_message(ob, Head(s.msgs))} :
                                 ob \in s.obs},
                  msgs |-> Tail(s.msgs)])

\* C34: a complete message whose operation is rejected is removed from the
\* buffer in full like any other, and the parse loop goes on to dispatch the
\* messages behind it in the same process() call. A process() step that found
\* no overflow dispatched every message of the buffer, accepted or rejected,
\* removed each in full, left the bytes behind the last one as they were, and
\* ended in the orders, index and book the messages give when dispatched one
\* after the other.
C34_RejectedMessageConsumed ==
    [][(/\ hist'.processes = hist.processes + 1
        /\ Len(Found) <= MAX_BUFFER_SIZE)
         => LET skipped == error_stats_'.unknown_message_types
                             - error_stats_.unknown_message_types
                removed == BytesOf(NewlyDispatched) + skipped
            IN /\ NewlyDispatched = MessagesIn(Found)
               /\ message_buffer_' = SubSeq(Found, removed + 1, Len(Found))
               /\ \E ob \in DispatchAll([obs |-> {OB}, msgs |-> MessagesIn(Found)]) :
                     /\ orders_' = ob.orders_
                     /\ order_info_' = ob.order_info_
                     /\ BookView(book_') = BookView(ob.book_)
                     /\ error_stats_'.invalid_operations
                          = ob.error_stats_.invalid_operations]_vars

\* One process() call dispatched a message that was rejected and, after it, a
\* message that was accepted, and left nothing in the buffer.
C34_Witness ==
    /\ last.type = "p"
    /\ hist.processes = 1
    /\ message_buffer_ = <<>>
    /\ \E i \in 1..(Len(hist.dispatched) - 1) :
          /\ ~hist.dispatched[i].ret
          /\ hist.dispatched[i + 1].ret

\* The fixed length of the message a buffer starts with: 36, 23, 31 or 35 for
\* 'A', 'X', 'E', 'U', and none (0) for an empty buffer or another first byte.
FixedLength(buffer) ==
    IF buffer = <<>> THEN 0
    ELSE IF buffer[1] = 65 THEN 36
    ELSE IF buffer[1] = 88 THEN 23
    ELSE IF buffer[1] = 69 THEN 31
    ELSE IF buffer[1] = 85 THEN 35
    ELSE 0

\* C35: parse_one returns a message exactly when the buffer is not empty, its
\* first byte is 'A', 'X', 'E' or 'U' and it holds at least the fixed length
\* of that type; bytes_consumed is then that length, 36, 23, 31 or 35,
\* whatever follows the message; otherwise parse_one returns nothing; and the
\* buffer is as it was.
C35_ParserClassifies ==
    [][last'.type = "parse_one" =>
          /\ message_buffer_' = message_buffer_
          /\ last'.ret.has_value
                <=> (FixedLength(message_buffer_) > 0
                     /\ Len(message_buffer_) >= FixedLength(message_buffer_))
          /\ last'.ret.has_value =>
                /\ last'.ret.value.valid
                /\ last'.ret.value.bytes_consumed = FixedLength(message_buffer_)
                /\ ToByte(last'.ret.value.type) = message_buffer_[1]]_vars

\* parse_one was given a Cancel with bytes of the next message behind it and
\* returned the Cancel, 23 bytes consumed.
C35_Witness ==
    /\ last.type = "parse_one"
    /\ last.ret.has_value
    /\ last.ret.value.type = "X"
    /\ last.ret.value.bytes_consumed = 23
    /\ Len(message_buffer_) = 23 + MaxExtra

\* The ids of the inactive Orders in an order table.
Inactive(orders) == {id \in DOMAIN orders : ~orders[id].active}

\* C36: between operations no inactive Order is stored: get_order_count()
\* equals get_active_order_count(), every stored Order is active, and
\* find_order(id) finds an Order exactly when id is a key of the order table;
\* an inactive Order is seen only by the 'X' or 'E' callback of the operation
\* that erases it, as the Order shown and the one inactive entry of the table.
C36_NoInactiveOrderStored ==
    /\ get_order_count(OB) = get_active_order_count(OB)
    /\ Inactive(orders_) = {}
    /\ \A id \in OrderIds :
          find_order(OB, id) = IF id \in DOMAIN orders_ THEN orders_[id] ELSE nullptr
    /\ \A i \in 1..Len(last.events) :
          LET ev == last.events[i]
          IN IF ev.order.active
             THEN Inactive(ev.at.orders_) = {}
             ELSE /\ ev.type \in {"X", "E"}
                  /\ Inactive(ev.at.orders_) = {ev.order.order_id}
                  /\ ev.order.order_id \notin DOMAIN orders_

\* A Cancel has just erased one of two stored orders: its callback saw the
\* order inactive in the table, and the table now holds the other order only.
C36_Witness ==
    /\ last.type = "X"
    /\ last.ret
    /\ Len(last.events) = 1
    /\ Inactive(last.events[1].at.orders_) = {last.events[1].order.order_id}
    /\ get_order_count(OB) = 1
    /\ get_active_order_count(OB) = 1
    /\ last.events[1].order.order_id \notin DOMAIN orders_

\* C37: every step other than reset_stats() that starts with the byte counters
\* of the fabric adding up, as they do when the fabric is constructed, ends
\* with them adding up: total_bytes_written - total_bytes_read is depth_bytes
\* (what was written and not yet read is queued), and total_bytes_written +
\* total_bytes_dropped is the size of all chunks offered to write_chunk; and
\* when process() returns the fabric is empty and total_bytes_read equals
\* total_bytes_written.
C37_ByteConservation ==
    [][LET Conserved(fabric, offered) ==
               /\ fabric.stats_.total_bytes_written - fabric.stats_.total_bytes_read
                    = fabric.current_depth_bytes_
               /\ fabric.stats_.total_bytes_written + fabric.stats_.total_bytes_dropped
                    = offered
       IN (Conserved(fabric_, hist.sent) /\ last'.type # "z") =>
             /\ Conserved(fabric_', hist'.sent)
             /\ hist'.processes = hist.processes + 1 =>
                   /\ fabric_'.fifo_ = <<>>
                   /\ fabric_'.current_depth_bytes_ = 0
                   /\ fabric_'.stats_.total_bytes_read
                        = fabric_'.stats_.total_bytes_written]_vars

\* process() has drained a fabric that had accepted one chunk and dropped
\* another: all bytes written are read, and written and dropped bytes
\* together are the bytes offered.
C37_Witness ==
    /\ last.type = "p"
    /\ fabric_.fifo_ = <<>>
    /\ fabric_.stats_.total_bytes_written > 0
    /\ fabric_.stats_.total_bytes_dropped > 0
    /\ fabric_.stats_.total_bytes_read = fabric_.stats_.total_bytes_written
    /\ fabric_.stats_.total_bytes_written + fabric_.stats_.total_bytes_dropped = hist.sent

====
